---- MODULE Spec2Model ----
(***************************************************************************)
(* The settings resolver of ennam-django-apidog: the process-wide          *)
(* ApidogSettings instance (src/src/ennam_django_apidog/settings.py), its  *)
(* lazily memoized attributes, the snapshot of django.conf.settings'       *)
(* APIDOG_SETTINGS it keeps, and the process environment it falls back to. *)
(*                                                                         *)
(* Values are strings.  Python's None is the string None below; the        *)
(* integer default of TIMEOUT and the mapping default of ENVIRONMENTS are  *)
(* carried as the opaque strings "60" and "DEFAULT_ENVIRONMENTS": the      *)
(* resolver never looks inside a value, it only passes it on.              *)
(***************************************************************************)
EXTENDS Integers, Sequences, FiniteSets, TLC

VARIABLES
  APIDOG_SETTINGS,  \* django.conf.settings.APIDOG_SETTINGS: a mapping key -> value
  environ,          \* os.environ restricted to the APIDOG_* variables
  _cached_attrs,    \* apidog_settings._cached_attrs: set of names
  inst_dict,        \* the memoized setting attributes in apidog_settings.__dict__
  _user_settings,   \* {} when the instance has no _user_settings attribute, else {snapshot}
  ret,              \* what the last call on the resolver did and returned
  returned,         \* history: key -> value its last get returned since the last reload
  fs,               \* the filesystem: path -> content ("<dir>" for a directory)
  out,              \* what the last management command did and how it ended
  local_schema,     \* handle_compare: the document loaded from the local file
  cloud_schema,     \* handle_compare: the document loaded from the pulled file
  compared,         \* handle_compare: what the comparison of the two returned
  serialized,       \* threads: whether the callers guard every call with one mutex
  lock,             \* threads: the thread holding that mutex, or "free"
  pc,               \* threads: thread -> the statement it is at
  frame,            \* threads: thread -> the locals of its call
  stale_keys        \* threads: keys whose memoized value predates the last finished reload

thread_vars == <<serialized, lock, pc, frame, stale_keys>>

\* What a call on the resolver has no hand in.
elsewhere == <<out, local_schema, cloud_schema, compared, thread_vars>>

resolver_vars ==
  <<APIDOG_SETTINGS, environ, _cached_attrs, inst_dict, _user_settings, ret, returned>>

vars == <<APIDOG_SETTINGS, environ, _cached_attrs, inst_dict, _user_settings, ret,
          returned, fs, elsewhere>>

-----------------------------------------------------------------------------
(* Bounds of the exploration *)

MaxCached == 2

-----------------------------------------------------------------------------
(* Values *)

None == "None"
Unset == "<unset>"
Obj == "<object>"

DEFAULTS ==
  [ OUTPUT_DIR      |-> None,
    SCHEMA_ENDPOINT |-> "/api/schema/",
    PROJECT_ID      |-> None,
    TOKEN           |-> None,
    API_VERSION     |-> "2024-03-28",
    API_BASE_URL    |-> "https://api.apidog.com/v1",
    TIMEOUT         |-> "60",
    ENVIRONMENTS    |-> "DEFAULT_ENVIRONMENTS" ]

Keys == DOMAIN DEFAULTS

\* The environment variable named after each key, "APIDOG_" + key.  The resolver
\* reads three of them; the others exist in the process environment all the same.
EnvVarOf ==
  [ OUTPUT_DIR      |-> "APIDOG_OUTPUT_DIR",
    SCHEMA_ENDPOINT |-> "APIDOG_SCHEMA_ENDPOINT",
    PROJECT_ID      |-> "APIDOG_PROJECT_ID",
    TOKEN           |-> "APIDOG_TOKEN",
    API_VERSION     |-> "APIDOG_API_VERSION",
    API_BASE_URL    |-> "APIDOG_API_BASE_URL",
    TIMEOUT         |-> "APIDOG_TIMEOUT",
    ENVIRONMENTS    |-> "APIDOG_ENVIRONMENTS" ]

EnvVars == {EnvVarOf[k] : k \in Keys}

ClassAttrs == {"user_settings", "get_output_dir", "get_credentials", "reload"}

Truthy(v) == v # None /\ v # ""

Put(f, k, v) == [x \in DOMAIN f \cup {k} |-> IF x = k THEN v ELSE f[x]]

EmptyMap == [x \in {} |-> None]

-----------------------------------------------------------------------------
(* The inputs explored: the configurations Django's settings may hold, the  *)
(* environments the process may run in, the overrides and names callers    *)
(* pass.                                                                   *)

NoConfig == EmptyMap

FullConfig ==
  [ OUTPUT_DIR      |-> "/cfg/out",
    SCHEMA_ENDPOINT |-> "/cfg/schema/",
    PROJECT_ID      |-> "cfg-project",
    TOKEN           |-> "cfg-token",
    API_VERSION     |-> "cfg-version",
    API_BASE_URL    |-> "cfg-url",
    TIMEOUT         |-> "30",
    ENVIRONMENTS    |-> "CFG_ENVIRONMENTS" ]

PartialConfig == [PROJECT_ID |-> "cfg-project", SCHEMA_ENDPOINT |-> "/cfg/schema/"]

BlankConfig == [OUTPUT_DIR |-> "", PROJECT_ID |-> None, TOKEN |-> ""]

Configs == {NoConfig, FullConfig, PartialConfig, BlankConfig}

NoEnv == [v \in EnvVars |-> Unset]

FullEnv ==
  [ APIDOG_OUTPUT_DIR      |-> "/env/out",
    APIDOG_SCHEMA_ENDPOINT |-> "/env/schema/",
    APIDOG_PROJECT_ID      |-> "env-project",
    APIDOG_TOKEN           |-> "env-token",
    APIDOG_API_VERSION     |-> "env-version",
    APIDOG_API_BASE_URL    |-> "env-url",
    APIDOG_TIMEOUT         |-> "5",
    APIDOG_ENVIRONMENTS    |-> "ENV_ENVIRONMENTS" ]

BlankEnv == [v \in EnvVars |-> ""]

Envs == {NoEnv, FullEnv, BlankEnv}

Overrides == {None, "", "X"}

Names == Keys \cup {"INVALID_SETTING", "_user_settings", "user_settings", "defaults"}

\* settings.BASE_DIR (or the working directory): absolute paths, "/" then the segments
BaseDirs == {<<"/", "srv", "app">>, <<"/", "srv", "myproj">>, <<"/", "app">>}

Dir == "<dir>"

\* A project checked out under /srv/app whose output directory /srv/apidog exists
\* and holds an exported schema; no other output directory exists.
ProjectFiles ==
  [ p \in { <<"/", "srv", "apidog">>,
            <<"/", "srv", "apidog", "openapi_schema_latest.json">> } |->
      IF Len(p) = 3 THEN Dir ELSE "LOCAL_SCHEMA" ]

\* No management command has run.
NoCommand == [cmd |-> "none"]

\* No comparison has been made of the two documents.
NotCompared == [op |-> "none"]

\* The threads that call the resolver: two that read settings, one that reloads.
Getters == {"g1", "g2"}

Threads == Getters \cup {"r"}

NoFrame == [attr |-> "", val |-> None, hit |-> FALSE, old |-> FALSE, todo |-> {}, size |-> 0]

\* No thread has called the resolver.
NoThreads ==
  /\ serialized = TRUE
  /\ lock = "free"
  /\ pc = [t \in Threads |-> "idle"]
  /\ frame = [t \in Threads |-> NoFrame]
  /\ stale_keys = {}

-----------------------------------------------------------------------------
(* The resolver object and its methods, as functions on the instance state *)
(* s = [cached, dict, us]: _cached_attrs, the memoized attributes, and the *)
(* _user_settings attribute ({} when the instance has none).  Each returns *)
(* the instance state it leaves in "self".                                 *)

Self == [cached |-> _cached_attrs, dict |-> inst_dict, us |-> _user_settings]

Result(raised, val, s, hook) == [raised |-> raised, val |-> val, self |-> s, hook |-> hook]

environ_get_ignored(var, default) == default

environ_get(var, default) ==
  IF environ[var] = Unset THEN default ELSE environ[var]

user_settings_live(s) ==
  [val |-> APIDOG_SETTINGS, self |-> [s EXCEPT !.us = {APIDOG_SETTINGS}]]

user_settings(s) ==
  IF s.us = {}
    THEN [val |-> APIDOG_SETTINGS, self |-> [s EXCEPT !.us = {APIDOG_SETTINGS}]]
    ELSE [val |-> CHOOSE m \in s.us : TRUE, self |-> s]

Memoize(s, attr, val) ==
  [s EXCEPT !.cached = @ \cup {attr}, !.dict = Put(@, attr, val)]

\* mutant: the environment variable is consulted before the user settings
getattr_env_first(s, attr) ==
  IF attr \notin DOMAIN DEFAULTS
    THEN Result(TRUE, None, s, {})
    ELSE
      LET u == user_settings(s)
          fromUser == IF attr \in DOMAIN u.val THEN u.val[attr] ELSE DEFAULTS[attr]
          val == IF attr \in {"PROJECT_ID", "TOKEN", "OUTPUT_DIR"}
                   THEN environ_get(EnvVarOf[attr], fromUser)
                   ELSE fromUser
      IN Result(FALSE, val, Memoize(u.self, attr, val), {attr})

\* mutant: every key falls back to its APIDOG_<key> environment variable
getattr_env_any(s, attr) ==
  IF attr \notin DOMAIN DEFAULTS
    THEN Result(TRUE, None, s, {})
    ELSE
      LET u == user_settings(s)
          val == IF attr \in DOMAIN u.val THEN u.val[attr]
                 ELSE environ_get(EnvVarOf[attr], DEFAULTS[attr])
      IN Result(FALSE, val, Memoize(u.self, attr, val), {attr})

\* mutant: the resolved value is returned without being stored on the instance
getattr_no_memo(s, attr) ==
  IF attr \notin DOMAIN DEFAULTS
    THEN Result(TRUE, None, s, {})
    ELSE
      LET u == user_settings(s)
          val == IF attr \in DOMAIN u.val THEN u.val[attr]
                 ELSE IF attr \in {"PROJECT_ID", "TOKEN", "OUTPUT_DIR"}
                   THEN environ_get(EnvVarOf[attr], DEFAULTS[attr])
                 ELSE DEFAULTS[attr]
      IN Result(FALSE, val, [u.self EXCEPT !.cached = @ \cup {attr}], {attr})

\* mutant: a name that is not in DEFAULTS yields None instead of raising
getattr_lenient(s, attr) ==
  IF attr \notin DOMAIN DEFAULTS
    THEN Result(FALSE, None, s, {})
    ELSE
      LET u == user_settings(s)
          val == IF attr \in DOMAIN u.val THEN u.val[attr]
                 ELSE IF attr \in {"PROJECT_ID", "TOKEN", "OUTPUT_DIR"}
                   THEN environ_get(EnvVarOf[attr], DEFAULTS[attr])
                 ELSE DEFAULTS[attr]
      IN Result(FALSE, val, Memoize(u.self, attr, val), {attr})

\* mutant: the user settings are read before the name is looked up in the defaults
getattr_settings_first(s, attr) ==
  LET u == user_settings(s) IN
    IF attr \notin DOMAIN DEFAULTS
      THEN Result(TRUE, None, u.self, {})
      ELSE
        LET val == IF attr \in DOMAIN u.val THEN u.val[attr]
                   ELSE IF attr \in {"PROJECT_ID", "TOKEN", "OUTPUT_DIR"}
                     THEN environ_get(EnvVarOf[attr], DEFAULTS[attr])
                   ELSE DEFAULTS[attr]
        IN Result(FALSE, val, Memoize(u.self, attr, val), {attr})

\* mutant: an empty user setting counts as missing
getattr_blank_is_missing(s, attr) ==
  IF attr \notin DOMAIN DEFAULTS
    THEN Result(TRUE, None, s, {})
    ELSE
      LET u == user_settings(s)
          val == IF attr \in DOMAIN u.val /\ Truthy(u.val[attr]) THEN u.val[attr]
                 ELSE IF attr \in {"PROJECT_ID", "TOKEN", "OUTPUT_DIR"}
                   THEN environ_get(EnvVarOf[attr], DEFAULTS[attr])
                 ELSE DEFAULTS[attr]
      IN Result(FALSE, val, Memoize(u.self, attr, val), {attr})

__getattr__(s, attr) ==
  IF attr \notin DOMAIN DEFAULTS
    THEN Result(TRUE, None, s, {})
    ELSE
      LET u == user_settings(s)
          val ==
            IF attr \in DOMAIN u.val THEN u.val[attr]
            ELSE IF attr = "PROJECT_ID"
              THEN environ_get("APIDOG_PROJECT_ID", DEFAULTS[attr])
            ELSE IF attr = "TOKEN"
              THEN environ_get("APIDOG_TOKEN", DEFAULTS[attr])
            ELSE IF attr = "OUTPUT_DIR"
              THEN environ_get("APIDOG_OUTPUT_DIR", DEFAULTS[attr])
            ELSE DEFAULTS[attr]
      IN Result(FALSE, val, Memoize(u.self, attr, val), {attr})

InstanceAttrs(s) ==
  {"defaults", "_cached_attrs"} \cup DOMAIN s.dict
    \cup (IF s.us = {} THEN {} ELSE {"_user_settings"})

\* Attribute access on the instance: the property, then what the instance and its
\* class already hold, and only on a miss the __getattr__ hook.
getattr(s, name) ==
  IF name = "user_settings"
    THEN Result(FALSE, Obj, user_settings(s).self, {})
  ELSE IF name \in DOMAIN s.dict
    THEN Result(FALSE, s.dict[name], s, {})
  ELSE IF name \in InstanceAttrs(s) \cup ClassAttrs
    THEN Result(FALSE, Obj, s, {})
  ELSE __getattr__(s, name)

\* mutant: the resolver's own value wins over the override
get_credentials_state_first(s, project_id, token) ==
  LET p == getattr(s, "PROJECT_ID")
      t == getattr(p.self, "TOKEN")
  IN [ pid |-> IF Truthy(p.val) THEN p.val ELSE project_id,
       tok |-> IF Truthy(t.val) THEN t.val ELSE token,
       self |-> t.self, hook |-> p.hook \cup t.hook ]

\* mutant: an override counts as given unless it is None
get_credentials_not_none(s, project_id, token) ==
  LET p == IF project_id # None THEN Result(FALSE, project_id, s, {})
           ELSE getattr(s, "PROJECT_ID")
      t == IF token # None THEN Result(FALSE, token, p.self, {})
           ELSE getattr(p.self, "TOKEN")
  IN [pid |-> p.val, tok |-> t.val, self |-> t.self, hook |-> p.hook \cup t.hook]

\* mutant: an override that is given is kept on the instance as the setting's value
get_credentials_remembering(s, project_id, token) ==
  LET p == IF Truthy(project_id)
             THEN Result(FALSE, project_id, Memoize(s, "PROJECT_ID", project_id), {})
             ELSE getattr(s, "PROJECT_ID")
      t == IF Truthy(token)
             THEN Result(FALSE, token, Memoize(p.self, "TOKEN", token), {})
             ELSE getattr(p.self, "TOKEN")
  IN [pid |-> p.val, tok |-> t.val, self |-> t.self, hook |-> p.hook \cup t.hook]

get_credentials(s, project_id, token) ==
  LET p == IF Truthy(project_id) THEN Result(FALSE, project_id, s, {})
           ELSE getattr(s, "PROJECT_ID")
      t == IF Truthy(token) THEN Result(FALSE, token, p.self, {})
           ELSE getattr(p.self, "TOKEN")
  IN [pid |-> p.val, tok |-> t.val, self |-> t.self, hook |-> p.hook \cup t.hook]

basename(p) == IF Len(p) <= 1 THEN "" ELSE p[Len(p)]

dirname(p) == IF Len(p) <= 1 THEN p ELSE SubSeq(p, 1, Len(p) - 1)

join(p, name) == Append(p, name)

\* mutant: the "app" directory is not stepped out of
get_output_dir_no_app(s, base_dir) ==
  LET o == getattr(s, "OUTPUT_DIR") IN
    IF Truthy(o.val)
      THEN [ val |-> <<o.val>>, attr |-> o.val, self |-> o.self, hook |-> o.hook,
             derived |-> FALSE, made |-> {} ]
      ELSE [ val |-> join(base_dir, "apidog"),
             attr |-> o.val, self |-> o.self, hook |-> o.hook, derived |-> TRUE,
             made |-> {} ]

\* mutant: the directory is created when it does not exist
get_output_dir_makedirs(s, base_dir) ==
  LET o == getattr(s, "OUTPUT_DIR")
      d == IF Truthy(o.val) THEN <<o.val>>
           ELSE IF basename(base_dir) = "app"
             THEN join(dirname(base_dir), "apidog")
           ELSE join(base_dir, "apidog")
  IN [ val |-> d, attr |-> o.val, self |-> o.self, hook |-> o.hook,
       derived |-> ~Truthy(o.val), made |-> {d} \ DOMAIN fs ]

get_output_dir(s, base_dir) ==
  LET o == getattr(s, "OUTPUT_DIR") IN
    IF Truthy(o.val)
      THEN [ val |-> <<o.val>>, attr |-> o.val, self |-> o.self, hook |-> o.hook,
             derived |-> FALSE, made |-> {} ]
      ELSE [ val |-> IF basename(base_dir) = "app"
                       THEN join(dirname(base_dir), "apidog")
                       ELSE join(base_dir, "apidog"),
             attr |-> o.val, self |-> o.self, hook |-> o.hook, derived |-> TRUE,
             made |-> {} ]

Dropped(s) ==
  (s.cached \cap DOMAIN s.dict) \cup (IF s.us = {} THEN {} ELSE {"_user_settings"})

\* mutant: the cached configuration snapshot survives the reload
reload_keeps_snapshot(s) ==
  [ raised |-> FALSE,
    dropped |-> s.cached \cap DOMAIN s.dict,
    self |-> [ cached |-> {},
               dict |-> [x \in DOMAIN s.dict \ s.cached |-> s.dict[x]],
               us |-> s.us ] ]

\* mutant: _user_settings is deleted without asking whether it is there
reload_unguarded(s) ==
  [ raised |-> s.us = {},
    dropped |-> Dropped(s),
    self |-> [ cached |-> {},
               dict |-> [x \in DOMAIN s.dict \ s.cached |-> s.dict[x]],
               us |-> {} ] ]

\* mutant: the cached-key set is cleared, the memoized values stay
reload_keeps_values(s) ==
  [ raised |-> FALSE,
    dropped |-> IF s.us = {} THEN {} ELSE {"_user_settings"},
    self |-> [cached |-> {}, dict |-> s.dict, us |-> {}] ]

reload(s) ==
  [ raised |-> FALSE,
    dropped |-> Dropped(s),
    self |-> [ cached |-> {},
               dict |-> [x \in DOMAIN s.dict \ s.cached |-> s.dict[x]],
               us |-> {} ] ]

-----------------------------------------------------------------------------
(* Actions: one per call on the resolver, and the changes the world outside *)
(* may make between two calls.                                              *)

Install(s) ==
  /\ _cached_attrs' = s.cached
  /\ inst_dict' = s.dict
  /\ _user_settings' = s.us

Ret(op, args, raised, val, hook, dropped) ==
  [ op |-> op, args |-> args, raised |-> raised, val |-> val, hook |-> hook,
    dropped |-> dropped ]

Get(name) ==
  LET r == getattr(Self, name) IN
    /\ Cardinality(r.self.cached) <= MaxCached
    /\ Install(r.self)
    /\ ret' = Ret("get", <<name>>, r.raised, IF r.raised THEN <<>> ELSE <<r.val>>,
                  r.hook, {})
    /\ returned' = IF name \in Keys /\ ~r.raised THEN Put(returned, name, r.val)
                   ELSE returned
    /\ UNCHANGED <<APIDOG_SETTINGS, environ, fs, elsewhere>>

GetCredentials(project_id, token) ==
  LET r == get_credentials(Self, project_id, token) IN
    /\ Cardinality(r.self.cached) <= MaxCached
    /\ Install(r.self)
    /\ ret' = Ret("get_credentials", <<project_id, token>>, FALSE, <<r.pid, r.tok>>,
                  r.hook, {})
    /\ returned' =
         LET a == IF Truthy(project_id) THEN returned
                  ELSE Put(returned, "PROJECT_ID", r.pid)
         IN IF Truthy(token) THEN a ELSE Put(a, "TOKEN", r.tok)
    /\ UNCHANGED <<APIDOG_SETTINGS, environ, fs, elsewhere>>

GetOutputDir(base_dir) ==
  LET r == get_output_dir(Self, base_dir) IN
    /\ Cardinality(r.self.cached) <= MaxCached
    /\ Install(r.self)
    /\ ret' = Ret("get_output_dir", IF r.derived THEN base_dir ELSE <<>>, FALSE,
                  r.val, r.hook, {})
    /\ returned' = Put(returned, "OUTPUT_DIR", r.attr)
    /\ fs' = [p \in DOMAIN fs \cup r.made |-> IF p \in DOMAIN fs THEN fs[p] ELSE Dir]
    /\ UNCHANGED <<APIDOG_SETTINGS, environ, elsewhere>>

Reload ==
  LET r == reload(Self) IN
    /\ Install(r.self)
    /\ ret' = Ret("reload", <<>>, r.raised, <<>>, {}, r.dropped)
    /\ returned' = EmptyMap
    /\ UNCHANGED <<APIDOG_SETTINGS, environ, fs, elsewhere>>

SetConfig(c) ==
  /\ c # APIDOG_SETTINGS
  /\ APIDOG_SETTINGS' = c
  /\ ret' = Ret("outside", <<>>, FALSE, <<>>, {}, {})
  /\ UNCHANGED <<environ, _cached_attrs, inst_dict, _user_settings, returned>>
  /\ UNCHANGED <<fs, elsewhere>>

SetEnviron(e) ==
  /\ e # environ
  /\ environ' = e
  /\ ret' = Ret("outside", <<>>, FALSE, <<>>, {}, {})
  /\ UNCHANGED <<APIDOG_SETTINGS, _cached_attrs, inst_dict, _user_settings, returned>>
  /\ UNCHANGED <<fs, elsewhere>>

Init ==
  /\ APIDOG_SETTINGS \in Configs
  /\ environ \in Envs
  /\ _cached_attrs = {}
  /\ inst_dict = EmptyMap
  /\ _user_settings = {}
  /\ ret = Ret("init", <<>>, FALSE, <<>>, {}, {})
  /\ returned = EmptyMap
  /\ fs = ProjectFiles
  /\ out = NoCommand
  /\ local_schema = EmptyMap /\ cloud_schema = EmptyMap /\ compared = NotCompared
  /\ NoThreads

Next ==
  \/ \E name \in Names : Get(name)
  \/ \E p \in Overrides, t \in Overrides : GetCredentials(p, t)
  \/ \E b \in BaseDirs : GetOutputDir(b)
  \/ Reload
  \/ \E c \in Configs : SetConfig(c)
  \/ \E e \in Envs : SetEnviron(e)

Spec == Init /\ [][Next]_vars

-----------------------------------------------------------------------------
(* handle_compare, from the two loaded documents on                        *)
(* (management/commands/apidog.py).  A JSON document is a mapping from its  *)
(* top-level keys to values; a value carries its Python type and, for a    *)
(* dict, its items in the order of the file, as <<key, value>> pairs.      *)

dict(items) == [type |-> "dict", items |-> items]

NoneValue == [type |-> "NoneType", items |-> <<>>]

Info == dict(<< <<"title", "Test">>, <<"version", "1.0.0">> >>)

SchemaAB ==
  [k \in {"info", "paths"} |->
     IF k = "info" THEN Info ELSE dict(<< <<"/a", "get">>, <<"/b", "get">> >>)]

\* the same paths as SchemaAB, in another order of keys
SchemaBA ==
  [k \in {"info", "paths"} |->
     IF k = "info" THEN Info ELSE dict(<< <<"/b", "get">>, <<"/a", "get">> >>)]

\* the same paths as SchemaAB, with other operations
SchemaABPost ==
  [k \in {"info", "paths"} |->
     IF k = "info" THEN Info ELSE dict(<< <<"/a", "post">>, <<"/b", "post">> >>)]

SchemaBC == [k \in {"paths"} |-> dict(<< <<"/b", "get">>, <<"/c", "get">> >>)]

SchemaABC ==
  [k \in {"paths"} |-> dict(<< <<"/a", "get">>, <<"/b", "get">>, <<"/c", "post">> >>)]

SchemaNoEndpoints == [k \in {"info", "paths"} |-> IF k = "info" THEN Info ELSE dict(<<>>)]

SchemaNoPaths == [k \in {"info"} |-> Info]

\* {"paths": null}
SchemaNullPaths == [k \in {"paths"} |-> NoneValue]

Schemas ==
  { EmptyMap, SchemaNoPaths, SchemaNoEndpoints, SchemaAB, SchemaBA, SchemaABPost,
    SchemaBC, SchemaABC, SchemaNullPaths }

\* schema.get("paths", {})
get_paths(schema) == IF "paths" \in DOMAIN schema THEN schema["paths"] ELSE dict(<<>>)

\* mutant: only the paths that define a get operation count
keys_of_get(d) == {d.items[i][1] : i \in {j \in 1..Len(d.items) : d.items[j][2] = "get"}}

\* set(d.keys()); only a dict has keys()
keys(d) == {d.items[i][1] : i \in 1..Len(d.items)}

\* list(a_set): the elements once each, in the order the set iterates
Lists(S) == {q \in [1..Cardinality(S) -> S] : {q[i] : i \in 1..Len(q)} = S}

\* mutant: the two differences change places
compare_swapped(local, cloud) ==
  IF get_paths(local).type # "dict" \/ get_paths(cloud).type # "dict"
    THEN [raised |-> "AttributeError", local_only |-> {}, cloud_only |-> {}, common |-> 0]
    ELSE
      LET local_paths == keys(get_paths(local))
          cloud_paths == keys(get_paths(cloud))
      IN [ raised |-> "", local_only |-> cloud_paths \ local_paths,
           cloud_only |-> local_paths \ cloud_paths,
           common |-> Cardinality(local_paths \cap cloud_paths) ]

\* What the comparison raises or returns, the two lists as sets.
compare(local, cloud) ==
  IF get_paths(local).type # "dict" \/ get_paths(cloud).type # "dict"
    THEN [raised |-> "AttributeError", local_only |-> {}, cloud_only |-> {}, common |-> 0]
    ELSE
      LET local_paths == keys(get_paths(local))
          cloud_paths == keys(get_paths(cloud))
          only_local == local_paths \ cloud_paths
          only_cloud == cloud_paths \ local_paths
          common == local_paths \cap cloud_paths
      IN [ raised |-> "", local_only |-> only_local, cloud_only |-> only_cloud,
           common |-> Cardinality(common) ]

\* json.load of the local and of the pulled file
LoadSchemas(local, cloud) ==
  /\ <<local, cloud>> # <<local_schema, cloud_schema>>
  /\ local_schema' = local
  /\ cloud_schema' = cloud
  /\ compared' = NotCompared
  /\ UNCHANGED <<resolver_vars, fs, out, thread_vars>>

Compare ==
  LET r == compare(local_schema, cloud_schema) IN
    /\ \E lo \in Lists(r.local_only), co \in Lists(r.cloud_only) :
         compared' = [ op |-> "compare", raised |-> r.raised, local_only |-> lo,
                       cloud_only |-> co, common |-> r.common ]
    /\ UNCHANGED <<resolver_vars, fs, out, local_schema, cloud_schema, thread_vars>>

InitCompare ==
  /\ APIDOG_SETTINGS = NoConfig /\ environ = NoEnv
  /\ _cached_attrs = {} /\ inst_dict = EmptyMap /\ _user_settings = {}
  /\ ret = Ret("init", <<>>, FALSE, <<>>, {}, {})
  /\ returned = EmptyMap
  /\ fs = ProjectFiles
  /\ out = NoCommand
  /\ local_schema \in Schemas /\ cloud_schema \in Schemas
  /\ compared = NotCompared
  /\ NoThreads

NextCompare ==
  \/ \E l \in Schemas, c \in Schemas : LoadSchemas(l, c)
  \/ Compare

SpecCompare == InitCompare /\ [][NextCompare]_vars

-----------------------------------------------------------------------------
(* The report handle_compare prints (management/commands/apidog.py), as the  *)
(* lines it writes to stdout.  Paths are Python strings, ordered as Python   *)
(* orders them: by the code points of their characters.                      *)

\* The most paths a document of the exploration names
MaxPaths == 22

\* The paths of the documents, in the order the files list them
FileOrder ==
  << "/u/1", "/u/2", "/u/3", "/u/4", "/u/5", "/u/6", "/u/7", "/u/8", "/u/9", "/u/10",
     "/u/11", "/u/12", "/u/13", "/u/14", "/u/15", "/u/16", "/u/17", "/u/18", "/u/19",
     "/u/20", "/u/21", "/c", "/a", "/b" >>

\* ord() of the characters of each path
CodePoints ==
  "/u/1" :> <<47, 117, 47, 49>> @@
  "/u/2" :> <<47, 117, 47, 50>> @@
  "/u/3" :> <<47, 117, 47, 51>> @@
  "/u/4" :> <<47, 117, 47, 52>> @@
  "/u/5" :> <<47, 117, 47, 53>> @@
  "/u/6" :> <<47, 117, 47, 54>> @@
  "/u/7" :> <<47, 117, 47, 55>> @@
  "/u/8" :> <<47, 117, 47, 56>> @@
  "/u/9" :> <<47, 117, 47, 57>> @@
  "/u/10" :> <<47, 117, 47, 49, 48>> @@
  "/u/11" :> <<47, 117, 47, 49, 49>> @@
  "/u/12" :> <<47, 117, 47, 49, 50>> @@
  "/u/13" :> <<47, 117, 47, 49, 51>> @@
  "/u/14" :> <<47, 117, 47, 49, 52>> @@
  "/u/15" :> <<47, 117, 47, 49, 53>> @@
  "/u/16" :> <<47, 117, 47, 49, 54>> @@
  "/u/17" :> <<47, 117, 47, 49, 55>> @@
  "/u/18" :> <<47, 117, 47, 49, 56>> @@
  "/u/19" :> <<47, 117, 47, 49, 57>> @@
  "/u/20" :> <<47, 117, 47, 50, 48>> @@
  "/u/21" :> <<47, 117, 47, 50, 49>> @@
  "/c" :> <<47, 99>> @@
  "/a" :> <<47, 97>> @@
  "/b" :> <<47, 98>>

\* p < q on Python strings
Less(p, q) ==
  LET a == CodePoints[p]
      b == CodePoints[q]
      Differ == {i \in 1..Len(a) : i > Len(b) \/ a[i] # b[i]}
  IN IF Differ = {} THEN Len(a) < Len(b)
     ELSE LET i == CHOOSE j \in Differ : \A k \in Differ : j <= k
          IN i <= Len(b) /\ a[i] < b[i]

\* mutant: the paths in the order of the file
file_order(S) ==
  LET F[n \in 0..Len(FileOrder)] ==
        IF n = 0 THEN <<>>
        ELSE IF FileOrder[n] \in S THEN Append(F[n - 1], FileOrder[n]) ELSE F[n - 1]
  IN F[Len(FileOrder)]

RECURSIVE sorted(_)
sorted(S) ==
  IF S = {} THEN <<>>
  ELSE LET least == CHOOSE p \in S : \A q \in S \ {p} : Less(p, q)
       IN <<least>> \o sorted(S \ {least})

Line(kind, path, n) == [kind |-> kind, path |-> path, n |-> n]

\* for path in sorted(only)[:20]: write(path); if len(only) > 20: write("... and N more")
listing(only) ==
  LET s == sorted(only)
      shown == SubSeq(s, 1, IF Len(s) < 20 THEN Len(s) ELSE 20)
  IN [i \in 1..Len(shown) |-> Line("path", shown[i], 0)]
       \o (IF Cardinality(only) > 20
             THEN <<Line("more", "", Cardinality(only) - 20)>> ELSE <<>>)

\* the lines of the report of two documents whose "paths" are mappings
report(local, cloud) ==
  LET local_paths == keys(get_paths(local))
      cloud_paths == keys(get_paths(cloud))
      only_local == local_paths \ cloud_paths
      only_cloud == cloud_paths \ local_paths
      common == local_paths \cap cloud_paths
  IN << Line("rule", "", 0), Line("title", "", 0), Line("rule", "", 0),
        Line("local_endpoints", "", Cardinality(local_paths)),
        Line("cloud_endpoints", "", Cardinality(cloud_paths)),
        Line("common_endpoints", "", Cardinality(common)),
        Line("rule", "", 0) >>
       \o (IF only_local # {}
             THEN <<Line("only_in_local", "", Cardinality(only_local))>>
                    \o listing(only_local)
             ELSE <<>>)
       \o (IF only_cloud # {}
             THEN <<Line("only_in_cloud", "", Cardinality(only_cloud))>>
                    \o listing(only_cloud)
             ELSE <<>>)
       \o (IF only_local = {} /\ only_cloud = {} THEN <<Line("in_sync", "", 0)>> ELSE <<>>)
       \o <<Line("rule", "", 0)>>

\* a document whose "paths" names the n first, or the n last, paths of FileOrder
FirstPaths(n) ==
  [k \in {"paths"} |-> dict([i \in 1..n |-> <<FileOrder[i], "get">>])]

LastPaths(n) ==
  [k \in {"paths"} |->
     dict([i \in 1..n |-> <<FileOrder[Len(FileOrder) - n + i], "get">>])]

\* few paths, and about twenty of them
ReportSizes == {0, 1, 2} \cup 19..MaxPaths

ReportSchemas == {FirstPaths(n) : n \in ReportSizes} \cup {LastPaths(n) : n \in ReportSizes}

Report ==
  /\ compared' = [op |-> "report", lines |-> report(local_schema, cloud_schema)]
  /\ UNCHANGED <<resolver_vars, fs, out, local_schema, cloud_schema, thread_vars>>

InitReport ==
  /\ APIDOG_SETTINGS = NoConfig /\ environ = NoEnv
  /\ _cached_attrs = {} /\ inst_dict = EmptyMap /\ _user_settings = {}
  /\ ret = Ret("init", <<>>, FALSE, <<>>, {}, {})
  /\ returned = EmptyMap
  /\ fs = ProjectFiles
  /\ out = NoCommand
  /\ local_schema \in ReportSchemas /\ cloud_schema \in ReportSchemas
  /\ compared = NotCompared
  /\ NoThreads

NextReport ==
  \/ \E l \in ReportSchemas, c \in ReportSchemas : LoadSchemas(l, c)
  \/ Report

SpecReport == InitReport /\ [][NextReport]_vars

-----------------------------------------------------------------------------
(* The management command (management/commands/apidog.py): handle and the  *)
(* push, pull and compare subcommands with the export they fall back on.   *)
(* Each is a function of the resolver instance s, the filesystem and what  *)
(* the world answers: the status of the local schema endpoint, the cloud's *)
(* response, the clock.  It returns what it raised or returned, the        *)
(* requests it sent to the cloud and the files it wrote.                   *)

BASE_DIR == <<"/", "srv", "app">>

NoError == [type |-> "", msg |-> ""]

CommandError(msg) == [type |-> "CommandError", msg |-> msg]

\* datetime.now().strftime("%Y%m%d_%H%M%S"): two seconds of the clock
Clock == {"20240101_000000", "20240101_000001"}

\* the second in which push, pull and compare are run
Stamps == {"20240101_000000"}

\* f"openapi_schema_{timestamp}.json"
openapi_schema ==
  [ t \in Clock |-> IF t = "20240101_000000" THEN "openapi_schema_20240101_000000.json"
                    ELSE "openapi_schema_20240101_000001.json" ]

\* f"openapi_schema_{timestamp}.yaml"
openapi_schema_yaml ==
  [ t \in Clock |-> IF t = "20240101_000000" THEN "openapi_schema_20240101_000000.yaml"
                    ELSE "openapi_schema_20240101_000001.yaml" ]

\* --format
Formats == {"json", "yaml"}

\* f"openapi_schema_latest.{fmt}"
openapi_schema_latest ==
  [ fmt \in Formats |-> IF fmt = "json" THEN "openapi_schema_latest.json"
                        ELSE "openapi_schema_latest.yaml" ]

\* what json.dump or yaml.dump writes of the schema fetched and stamped with
\* x-generated-at at a time
dump ==
  [ fmt \in Formats |->
      [ t \in Clock |->
          IF fmt = "json"
            THEN (IF t = "20240101_000000" THEN "SCHEMA@20240101_000000"
                  ELSE "SCHEMA@20240101_000001")
            ELSE (IF t = "20240101_000000" THEN "YAML_SCHEMA@20240101_000000"
                  ELSE "YAML_SCHEMA@20240101_000001") ] ]

\* f"openapi_from_apidog_{timestamp}.json"
openapi_from_apidog ==
  [ t \in Stamps |->
      IF t = "20240101_000000" THEN "openapi_from_apidog_20240101_000000.json"
      ELSE "openapi_from_apidog_20240101_000001.json" ]

\* The cloud's answers: a response with a status (one with status 200 carries a
\* JSON schema document), or no response (requests.exceptions.RequestException).
Responses ==
  { [kind |-> "response", status |-> 200],
    [kind |-> "response", status |-> 401],
    [kind |-> "response", status |-> 404],
    [kind |-> "response", status |-> 500],
    [kind |-> "RequestException", status |-> 0] }

\* Status of the project's own schema endpoint, asked through the test client.
EndpointStatuses == {200, 404}

\* --project-id and --token: neither, the project only, both
CommandOverrides == {<<None, None>>, <<"X", None>>, <<"X", "X">>}

\* The settings and environments a command runs under: no credentials anywhere,
\* credentials in the settings, credentials in the environment only, and blank
\* settings entries over credentials in the environment.
CommandContexts ==
  { <<NoConfig, NoEnv>>, <<FullConfig, NoEnv>>, <<NoConfig, FullEnv>>,
    <<BlankConfig, FullEnv>> }

\* --file / --local-file: none, a file that is there, a file that is not
SchemaFiles == {<<>>, <<"/", "tmp", "custom_schema.json">>, <<"/", "tmp", "missing.json">>}

\* --output: none, or a file in a directory that is there
OutputFiles == {<<>>, <<"/", "tmp", "custom_pull.json">>}

\* /tmp with a schema file in it; the output directory is not there yet
TmpFiles ==
  [ p \in {<<"/", "tmp">>, <<"/", "tmp", "custom_schema.json">>} |->
      IF Len(p) = 2 THEN Dir ELSE "CUSTOM_SCHEMA" ]

exists(files, p) == p \in DOMAIN files

\* self.output_dir
output_dir(s) == get_output_dir(s, BASE_DIR)

\* What a subcommand has done to the world so far: the credentials it resolved,
\* the statuses its own schema endpoint answered, its exchanges with the cloud
\* and the files it wrote.
NoIO == [credentials |-> <<>>, fetched |-> <<>>, requests |-> <<>>, wrote |-> {}]

Done(raised, result, s, files, io) ==
  [raised |-> raised, result |-> result, self |-> s, files |-> files, io |-> io]

\* The one value of a one-element set.  Only({ e(v) : v \in {x} }) is e with v
\* bound to the value of x, as a Python assignment v = x binds it once.
Only(S) == CHOOSE v \in S : TRUE

\* open(filepath, "w") needs the directory of the file
FileNotFoundError == [type |-> "FileNotFoundError", msg |-> ""]

\* mutant: the latest file is written only when there is none yet
export_into_keeping_latest(s, files, fmt, dir, custom_filename, status, now, io) ==
  Only({
    IF status # 200
      THEN Done(CommandError("Failed to fetch schema"), <<>>, e.self, files,
                [io EXCEPT !.fetched = Append(@, status)])
    ELSE IF ~exists(files, dir)
      THEN Done(FileNotFoundError, <<>>, e.self, files,
                [io EXCEPT !.fetched = Append(@, status)])
    ELSE
      LET filename == IF custom_filename # "" THEN custom_filename
                      ELSE IF fmt = "json" THEN openapi_schema[now]
                      ELSE openapi_schema_yaml[now]
          filepath == join(dir, filename)
          latest_filepath == join(dir, openapi_schema_latest[fmt])
          written == Put(files, filepath, dump[fmt][now])
      IN Done(NoError, filepath, e.self,
              IF exists(files, latest_filepath) THEN written
              ELSE Put(written, latest_filepath, dump[fmt][now]),
              [io EXCEPT !.fetched = Append(@, status),
                         !.wrote = @ \cup {filepath, latest_filepath}])
    : e \in {getattr(s, "SCHEMA_ENDPOINT")} })

\* handle_export once the directory to write into is known
export_into(s, files, fmt, dir, custom_filename, status, now, io) ==
  Only({
    IF status # 200
      THEN Done(CommandError("Failed to fetch schema"), <<>>, e.self, files,
                [io EXCEPT !.fetched = Append(@, status)])
    ELSE IF ~exists(files, dir)
      THEN Done(FileNotFoundError, <<>>, e.self, files,
                [io EXCEPT !.fetched = Append(@, status)])
    ELSE
      LET filename == IF custom_filename # "" THEN custom_filename
                      ELSE IF fmt = "json" THEN openapi_schema[now]
                      ELSE openapi_schema_yaml[now]
          filepath == join(dir, filename)
          latest_filepath == join(dir, openapi_schema_latest[fmt])
      IN Done(NoError, filepath, e.self,
              Put(Put(files, filepath, dump[fmt][now]), latest_filepath, dump[fmt][now]),
              [io EXCEPT !.fetched = Append(@, status),
                         !.wrote = @ \cup {filepath, latest_filepath}])
    : e \in {getattr(s, "SCHEMA_ENDPOINT")} })

\* output_dir = options.get("output") or self.output_dir
handle_export(s, files, fmt, output, custom_filename, status, now, io) ==
  IF output # <<>>
    THEN export_into(s, files, fmt, output, custom_filename, status, now, io)
    ELSE Only({ export_into(d.self, files, fmt, d.val, custom_filename, status, now, io)
                : d \in {output_dir(s)} })

\* requests.post: the headers, the url and the timeout read from the resolver,
\* and what came back
post(s, endpoint, project_id, token, data, response, io) ==
  Only({ Only({ Only({
    [ self |-> t.self,
      io |-> [io EXCEPT !.requests =
                Append(@, [ method |-> "POST", base |-> b.val, project |-> project_id,
                            endpoint |-> endpoint, bearer |-> token, version |-> v.val,
                            timeout |-> t.val, data |-> data, answer |-> response ])] ]
    : t \in {getattr(b.self, "TIMEOUT")} })
    : b \in {getattr(v.self, "API_BASE_URL")} })
    : v \in {getattr(s, "API_VERSION")} })

\* the 200 branch of handle_pull: the schema goes to the output file
pull_write(s, files, output_file, now, io) ==
  IF output_file # <<>>
    THEN Done(NoError, output_file, s, Put(files, output_file, "CLOUD_SCHEMA"),
              [io EXCEPT !.wrote = @ \cup {output_file}])
    ELSE Only({ LET file == join(d.val, openapi_from_apidog[now]) IN
                  Done(NoError, file, d.self, Put(files, file, "CLOUD_SCHEMA"),
                       [io EXCEPT !.wrote = @ \cup {file}])
                : d \in {output_dir(s)} })

\* mutant: pull goes to the cloud whatever the credentials
handle_pull_unchecked(s, files, project_id, token, output_file, response, now, io) ==
  Only({ Only({ Done(CommandError("Request failed"), <<>>, q.self, files, q.io)
    : q \in {post(c.self, "export-openapi", c.pid, c.tok, "", response,
                  [io EXCEPT !.credentials = <<c.pid, c.tok>>])} })
    : c \in {get_credentials(s, project_id, token)} })

\* mutant: whatever the cloud answers is written to the output file
handle_pull_keeping(s, files, project_id, token, output_file, response, now, io) ==
  Only({
    IF ~Truthy(c.pid) \/ ~Truthy(c.tok)
      THEN Done(CommandError("APIDOG credentials required"), <<>>, c.self, files,
                [io EXCEPT !.credentials = <<c.pid, c.tok>>])
      ELSE Only({
        IF response.kind = "RequestException"
          THEN Done(CommandError("Request failed"), <<>>, q.self, files, q.io)
        ELSE IF response.status = 200
          THEN pull_write(q.self, files, output_file, now, q.io)
        ELSE Only({ Done(CommandError("Failed"), <<>>, w.self, w.files, w.io)
                    : w \in {pull_write(q.self, files, output_file, now, q.io)} })
        : q \in {post(c.self, "export-openapi", c.pid, c.tok, "", response,
                      [io EXCEPT !.credentials = <<c.pid, c.tok>>])} })
    : c \in {get_credentials(s, project_id, token)} })

handle_pull(s, files, project_id, token, output_file, response, now, io) ==
  Only({
    IF ~Truthy(c.pid) \/ ~Truthy(c.tok)
      THEN Done(CommandError("APIDOG credentials required"), <<>>, c.self, files,
                [io EXCEPT !.credentials = <<c.pid, c.tok>>])
      ELSE Only({
        IF response.kind = "RequestException"
          THEN Done(CommandError("Request failed"), <<>>, q.self, files, q.io)
        ELSE IF response.status = 200
          THEN pull_write(q.self, files, output_file, now, q.io)
        ELSE IF response.status = 401
          THEN Done(CommandError("Unauthorized - Invalid token"), <<>>, q.self, files,
                    q.io)
        ELSE IF response.status = 404
          THEN Done(CommandError("Project not found - Check project ID"), <<>>, q.self,
                    files, q.io)
        ELSE Done(CommandError("Failed"), <<>>, q.self, files, q.io)
        : q \in {post(c.self, "export-openapi", c.pid, c.tok, "", response,
                      [io EXCEPT !.credentials = <<c.pid, c.tok>>])} })
    : c \in {get_credentials(s, project_id, token)} })

\* handle_export({"format": "json", "output": self.output_dir, "indent": 2})
export_to_output_dir(s, files, status, now, io) ==
  Only({ handle_export(d.self, files, "json", d.val, "", status, now, io)
         : d \in {output_dir(s)} })

\* mutant: push raises on a status other than 200
push_file_raising(s, files, project_id, token, schema_file, response, io) ==
  IF ~exists(files, schema_file)
    THEN Done(FileNotFoundError, <<>>, s, files, io)
    ELSE Only({
      IF response.kind = "RequestException"
        THEN Done(CommandError("Request failed"), <<>>, q.self, files, q.io)
      ELSE IF response.status = 200
        THEN Done(NoError, <<"True">>, q.self, files, q.io)
      ELSE Done(CommandError("Failed"), <<>>, q.self, files, q.io)
      : q \in {post(s, "import-openapi", project_id, token, files[schema_file],
                    response, io)} })

\* the end of handle_push: the file is read and posted
push_file(s, files, project_id, token, schema_file, response, io) ==
  IF ~exists(files, schema_file)
    THEN Done(FileNotFoundError, <<>>, s, files, io)
    ELSE Only({
      IF response.kind = "RequestException"
        THEN Done(CommandError("Request failed"), <<>>, q.self, files, q.io)
        ELSE Done(NoError, IF response.status = 200 THEN <<"True">> ELSE <<"False">>,
                  q.self, files, q.io)
      : q \in {post(s, "import-openapi", project_id, token, files[schema_file],
                    response, io)} })

\* mutant: push exports before it looks at the credentials
handle_push_exporting_first(s, files, project_id, token, schema_file, response, status, now, io) ==
  Only({ Only({
    IF x.raised # NoError THEN x
    ELSE IF ~Truthy(c.pid) \/ ~Truthy(c.tok)
      THEN Done(CommandError("APIDOG credentials required"), <<>>, x.self, x.files, x.io)
    ELSE push_file(x.self, x.files, c.pid, c.tok, x.result, response, x.io)
    : x \in { IF schema_file # <<>>
                THEN Done(NoError, schema_file, c.self, files,
                          [io EXCEPT !.credentials = <<c.pid, c.tok>>])
                ELSE export_to_output_dir(c.self, files, status, now,
                                          [io EXCEPT !.credentials = <<c.pid, c.tok>>]) } })
    : c \in {get_credentials(s, project_id, token)} })

handle_push(s, files, project_id, token, schema_file, response, status, now, io) ==
  Only({
    IF ~Truthy(c.pid) \/ ~Truthy(c.tok)
      THEN Done(CommandError("APIDOG credentials required"), <<>>, c.self, files,
                [io EXCEPT !.credentials = <<c.pid, c.tok>>])
    ELSE IF schema_file # <<>>
      THEN push_file(c.self, files, c.pid, c.tok, schema_file, response,
                     [io EXCEPT !.credentials = <<c.pid, c.tok>>])
    ELSE Only({
      IF x.raised # NoError THEN x
      ELSE push_file(x.self, x.files, c.pid, c.tok, x.result, response, x.io)
      : x \in {export_to_output_dir(c.self, files, status, now,
                                    [io EXCEPT !.credentials = <<c.pid, c.tok>>])} })
    : c \in {get_credentials(s, project_id, token)} })

\* mutant: compare exports afresh whenever no --local-file is given
compare_local_reexporting(s, files, local_file, status, now, io) ==
  IF local_file # <<>> THEN Done(NoError, local_file, s, files, io)
  ELSE export_to_output_dir(s, files, status, now, io)

\* the local schema of handle_compare: the file named, else the latest export,
\* else a fresh export
compare_local(s, files, local_file, status, now, io) ==
  IF local_file # <<>> THEN Done(NoError, local_file, s, files, io)
  ELSE Only({
    IF exists(files, join(d.val, "openapi_schema_latest.json"))
      THEN Done(NoError, join(d.val, "openapi_schema_latest.json"), d.self, files, io)
      ELSE export_to_output_dir(d.self, files, status, now, io)
    : d \in {output_dir(s)} })

handle_compare(s, files, project_id, token, local_file, response, status, now, io) ==
  Only({ Only({
    IF x.raised # NoError THEN x
    ELSE Only({
      IF p.raised # NoError THEN p
      ELSE IF ~exists(p.files, x.result)
        THEN Done(FileNotFoundError, <<>>, p.self, p.files, p.io)
      ELSE Done(NoError, <<"report">>, p.self, p.files, p.io)
      : p \in {handle_pull(x.self, x.files, c.pid, c.tok, <<>>, response, now, x.io)} })
    : x \in {compare_local(c.self, files, local_file, status, now,
                           [io EXCEPT !.credentials = <<c.pid, c.tok>>])} })
    : c \in {get_credentials(s, project_id, token)} })

\* handle: the output directory is created when it is not there
ensure_output_dir(s, files) ==
  Only({ [ self |-> d.self,
           files |-> IF exists(files, d.val) THEN files ELSE Put(files, d.val, Dir),
           made |-> IF exists(files, d.val) THEN {} ELSE {d.val} ]
         : d \in {output_dir(s)} })

\* The state a subcommand leaves, r its outcome after handle's h
Finish(cmd, options, h, r) ==
  /\ Install(r.self)
  /\ returned' = r.self.dict
  /\ ret' = Ret("command", <<>>, FALSE, <<>>, {}, {})
  /\ fs' = r.files
  /\ out' = [ cmd |-> cmd, options |-> options, raised |-> r.raised,
              result |-> r.result, credentials |-> r.io.credentials,
              fetched |-> r.io.fetched, requests |-> r.io.requests,
              wrote |-> r.io.wrote, made |-> h.made ]
  /\ UNCHANGED <<APIDOG_SETTINGS, environ, local_schema, cloud_schema, compared,
                 thread_vars>>

Push(project_id, token, file, response, status, now) ==
  \E h \in {ensure_output_dir(Self, fs)} :
    \E r \in {handle_push(h.self, h.files, project_id, token, file, response, status,
                          now, NoIO)} :
      Finish("push", <<project_id, token, file>>, h, r)

Pull(project_id, token, output, response, now) ==
  \E h \in {ensure_output_dir(Self, fs)} :
    \E r \in {handle_pull(h.self, h.files, project_id, token, output, response, now,
                          NoIO)} :
      Finish("pull", <<project_id, token, output>>, h, r)

CompareCommand(project_id, token, local_file, response, status, now) ==
  \E h \in {ensure_output_dir(Self, fs)} :
    \E r \in {handle_compare(h.self, h.files, project_id, token, local_file, response,
                             status, now, NoIO)} :
      Finish("compare", <<project_id, token, local_file>>, h, r)

InitCommands ==
  /\ \E c \in CommandContexts : APIDOG_SETTINGS = c[1] /\ environ = c[2]
  /\ _cached_attrs = {} /\ inst_dict = EmptyMap /\ _user_settings = {}
  /\ ret = Ret("init", <<>>, FALSE, <<>>, {}, {})
  /\ returned = EmptyMap
  /\ fs = TmpFiles
  /\ out = NoCommand
  /\ local_schema = EmptyMap /\ cloud_schema = EmptyMap /\ compared = NotCompared
  /\ NoThreads

NextCommands ==
  \/ \E c \in CommandOverrides, f \in SchemaFiles, r \in Responses,
        e \in EndpointStatuses, now \in Stamps :
         Push(c[1], c[2], f, r, e, now)
  \/ \E c \in CommandOverrides, o \in OutputFiles, r \in Responses, now \in Stamps :
         Pull(c[1], c[2], o, r, now)
  \/ \E c \in CommandOverrides, f \in SchemaFiles, r \in Responses,
        e \in EndpointStatuses, now \in Stamps :
         CompareCommand(c[1], c[2], f, r, e, now)

SpecCommands == InitCommands /\ [][NextCommands]_vars

-----------------------------------------------------------------------------
(* The export subcommand (management/commands/apidog.py): handle, then      *)
(* handle_export with the options of the command line.                      *)

\* --format, --output and --filename: the defaults, yaml, a custom filename, a
\* directory that is there and one that is not
ExportOptions ==
  { <<"json", <<>>, "">>,
    <<"yaml", <<>>, "">>,
    <<"json", <<>>, "custom.json">>,
    <<"json", <<"/", "tmp">>, "">>,
    <<"json", <<"/", "tmp", "exports">>, "">> }

\* settings without and with an OUTPUT_DIR
ExportContexts == {NoConfig, FullConfig}

Export(fmt, output, custom_filename, status, now) ==
  \E h \in {ensure_output_dir(Self, fs)} :
    \E r \in {handle_export(h.self, h.files, fmt, output, custom_filename, status, now,
                            NoIO)} :
      Finish("export", <<fmt, output, custom_filename>>, h, r)

InitExport ==
  /\ APIDOG_SETTINGS \in ExportContexts /\ environ = NoEnv
  /\ _cached_attrs = {} /\ inst_dict = EmptyMap /\ _user_settings = {}
  /\ ret = Ret("init", <<>>, FALSE, <<>>, {}, {})
  /\ returned = EmptyMap
  /\ fs = TmpFiles
  /\ out = NoCommand
  /\ local_schema = EmptyMap /\ cloud_schema = EmptyMap /\ compared = NotCompared
  /\ NoThreads

NextExport ==
  \E o \in ExportOptions, status \in EndpointStatuses, now \in Clock :
    Export(o[1], o[2], o[3], status, now)

SpecExport == InitExport /\ [][NextExport]_vars

-----------------------------------------------------------------------------
(* The validate subcommand (management/commands/apidog.py): handle, then     *)
(* handle_validate on the file of the command line.  The text of a file is  *)
(* a string; json.load makes of it a document, of which validate looks at   *)
(* the keys of the top level and at the values it prints statistics of.     *)

RequiredFields == <<"openapi", "info", "paths">>

\* What json.load returns for the texts explored: the top-level keys of the
\* document, and those among them whose value is null.
Documents ==
  "FULL" :> [fields |-> {"openapi", "info", "paths", "components"}, nulls |-> {}] @@
  "MINIMAL" :> [fields |-> {"openapi", "info", "paths"}, nulls |-> {}] @@
  "NO_OPENAPI" :> [fields |-> {"info", "paths"}, nulls |-> {}] @@
  "NO_INFO" :> [fields |-> {"openapi", "paths"}, nulls |-> {}] @@
  "NO_PATHS" :> [fields |-> {"openapi", "info"}, nulls |-> {}] @@
  "ONLY_OPENAPI" :> [fields |-> {"openapi"}, nulls |-> {}] @@
  "ONLY_PATHS" :> [fields |-> {"paths"}, nulls |-> {}] @@
  "EMPTY" :> [fields |-> {}, nulls |-> {}] @@
  "NULL_INFO" :> [fields |-> {"openapi", "info", "paths"}, nulls |-> {"info"}] @@
  "NULL_PATHS" :> [fields |-> {"openapi", "info", "paths"}, nulls |-> {"paths"}] @@
  "NULL_COMPONENTS" :>
     [fields |-> {"openapi", "info", "paths", "components"}, nulls |-> {"components"}]

\* the texts a schema file may hold: the documents above, and one that is no JSON
Texts == DOMAIN Documents \cup {"NOT_JSON"}

JSONDecodeError == [type |-> "JSONDecodeError", msg |-> ""]

AttributeError == [type |-> "AttributeError", msg |-> ""]

TypeError == [type |-> "TypeError", msg |-> ""]

NoDocument == [fields |-> {}, nulls |-> {}]

json_load(text) ==
  IF text \in DOMAIN Documents
    THEN [raised |-> NoError, doc |-> Documents[text]]
    ELSE [raised |-> JSONDecodeError, doc |-> NoDocument]

\* _print_schema_stats: schema.get(key, {}) is the value of a key that is there,
\* null included, and .get and len are then called on it
print_schema_stats(schema) ==
  IF "info" \in schema.nulls THEN AttributeError
  ELSE IF "paths" \in schema.nulls THEN TypeError
  ELSE IF "components" \in schema.nulls THEN AttributeError
  ELSE NoError

\* the first of the required fields that is not a key of the document, 0 for none
first_missing(schema) ==
  IF \A i \in DOMAIN RequiredFields : RequiredFields[i] \in schema.fields THEN 0
  ELSE CHOOSE i \in DOMAIN RequiredFields :
         /\ RequiredFields[i] \notin schema.fields
         /\ \A j \in 1..(i - 1) : RequiredFields[j] \in schema.fields

validate_file(s, files, schema_file) ==
  IF ~exists(files, schema_file)
    THEN Done(CommandError("Schema file not found"), <<>>, s, files, NoIO)
  ELSE
    Only({ IF j.raised # NoError THEN Done(j.raised, <<>>, s, files, NoIO)
           ELSE IF first_missing(j.doc) # 0
             THEN Done(CommandError("Missing required field: "
                                      \o RequiredFields[first_missing(j.doc)]),
                       <<>>, s, files, NoIO)
           ELSE IF print_schema_stats(j.doc) # NoError
             THEN Done(print_schema_stats(j.doc), <<>>, s, files, NoIO)
           ELSE Done(NoError, <<"True">>, s, files, NoIO)
         : j \in {json_load(files[schema_file])} })

handle_validate(s, files, file) ==
  IF file # <<>> THEN validate_file(s, files, file)
  ELSE Only({ validate_file(d.self, files, join(d.val, "openapi_schema_latest.json"))
              : d \in {output_dir(s)} })

\* --file: none, a file that is there, a file that is not
ValidateOptions ==
  {<<>>, <<"/", "tmp", "schema.json">>, <<"/", "tmp", "missing.json">>}

\* /tmp with schema.json holding the text custom; the output directory with its
\* latest schema holding the text latest, or not there at all when latest is None
ValidateFiles(dir, latest, custom) ==
  [ p \in {<<"/", "tmp">>, <<"/", "tmp", "schema.json">>}
          \cup (IF latest = None THEN {}
                ELSE {dir, join(dir, "openapi_schema_latest.json")}) |->
      IF p = <<"/", "tmp">> \/ p = dir THEN Dir
      ELSE IF p = <<"/", "tmp", "schema.json">> THEN custom
      ELSE latest ]

Validate(file) ==
  \E h \in {ensure_output_dir(Self, fs)} :
    \E r \in {handle_validate(h.self, h.files, file)} :
      Finish("validate", <<file>>, h, r)

InitValidate ==
  /\ APIDOG_SETTINGS \in ExportContexts /\ environ = NoEnv
  /\ _cached_attrs = {} /\ inst_dict = EmptyMap /\ _user_settings = {}
  /\ ret = Ret("init", <<>>, FALSE, <<>>, {}, {})
  /\ returned = EmptyMap
  /\ \E latest \in Texts \cup {None}, custom \in Texts :
       fs = ValidateFiles(output_dir(Self).val, latest, custom)
  /\ out = NoCommand
  /\ local_schema = EmptyMap /\ cloud_schema = EmptyMap /\ compared = NotCompared
  /\ NoThreads

NextValidate == \E file \in ValidateOptions : Validate(file)

SpecValidate == InitValidate /\ [][NextValidate]_vars

-----------------------------------------------------------------------------
(* The init subcommand (management/commands/apidog.py): handle, then         *)
(* handle_init copying the templates of the package beside the output       *)
(* directory.  The text of a file is the sequence of its lines and of the   *)
(* newlines between them, so that texts are joined as Python joins strings. *)

\* the longest .gitignore an init is still run on, in lines and newlines
MaxGitignore == 8

marker == "# APIDOG generated files"

\* the lines explored that have the marker in them
MarkerLines == {marker, "## APIDOG generated files (do not edit)"}

\* marker in text
marker_in(text) == \E i \in DOMAIN text : text[i] \in MarkerLines

\* self.templates_dir
templates_dir == <<"/", "site-packages", "ennam_django_apidog", "templates">>

TemplateNames ==
  <<"Makefile.apidog", "docker-compose.apidog.yml", "environments.json",
    ".gitignore.apidog">>

\* The rules the package may ship as .gitignore.apidog: headed by the marker, or
\* not having it
Rules ==
  { <<marker, "\n", "apidog/openapi_schema_*.json", "\n">>,
    <<"apidog/openapi_schema_*.json", "\n">> }

\* The .gitignore a project may have before its first init: an empty one, rules
\* of its own with and without a last newline, and two that have the marker
Gitignores ==
  { <<>>, <<"*.pyc", "\n">>, <<"*.pyc", "\n", ".env">>,
    <<"*.pyc", "\n", marker, "\n", "apidog/old.json", "\n">>,
    <<"## APIDOG generated files (do not edit)", "\n">> }

\* the templates the installed package has: all, all but the rules, the rules
\* alone, none
TemplateSets ==
  { {"Makefile.apidog", "docker-compose.apidog.yml", "environments.json",
     ".gitignore.apidog"},
    {"Makefile.apidog", "docker-compose.apidog.yml", "environments.json"},
    {".gitignore.apidog"},
    {} }

\* what a step of init leaves: the files, and those among them it wrote
Wrote(files, wrote) == [files |-> files, wrote |-> wrote]

\* mutant: the rules are appended whether or not the marker is there
append_gitignore_unmarked(t, template_path, gitignore_path) ==
  Only({ IF exists(t.files, gitignore_path)
           THEN Wrote(Put(t.files, gitignore_path,
                          t.files[gitignore_path] \o <<"\n">> \o rules),
                      t.wrote \cup {gitignore_path})
           ELSE Wrote(Put(t.files, gitignore_path, rules), t.wrote \cup {gitignore_path})
         : rules \in {t.files[template_path]} })

\* _append_gitignore
append_gitignore(t, template_path, gitignore_path) ==
  Only({ IF exists(t.files, gitignore_path)
           THEN IF marker_in(t.files[gitignore_path]) THEN t
                ELSE Wrote(Put(t.files, gitignore_path,
                               t.files[gitignore_path] \o <<"\n">> \o rules),
                           t.wrote \cup {gitignore_path})
           ELSE Wrote(Put(t.files, gitignore_path, rules), t.wrote \cup {gitignore_path})
         : rules \in {t.files[template_path]} })

\* one round of the loop over the templates
copy_template(t, force, dir, project_root, template_name) ==
  Only({ IF ~exists(t.files, template_path) THEN t
         ELSE IF template_name = ".gitignore.apidog"
           THEN append_gitignore(t, template_path, join(project_root, ".gitignore"))
         ELSE Only({ IF exists(t.files, dest_path) /\ ~force THEN t
                     ELSE Wrote(Put(t.files, dest_path, t.files[template_path]),
                                t.wrote \cup {dest_path})
                     : dest_path \in {IF template_name = "environments.json"
                                        THEN join(dir, template_name)
                                        ELSE join(project_root, template_name)} })
         : template_path \in {join(templates_dir, template_name)} })

RECURSIVE copy_templates(_, _, _, _, _)
copy_templates(t, force, dir, project_root, i) ==
  IF i > Len(TemplateNames) THEN t
  ELSE copy_templates(copy_template(t, force, dir, project_root, TemplateNames[i]),
                      force, dir, project_root, i + 1)

\* _create_apidog_readme, when there is no README.md yet or --force is given
create_apidog_readme(t, force, readme_path) ==
  IF ~exists(t.files, readme_path) \/ force
    THEN Wrote(Put(t.files, readme_path, <<"# APIDOG Integration", "\n">>),
               t.wrote \cup {readme_path})
    ELSE t

handle_init(s, files, force) ==
  Only({ Only({ Done(NoError, <<>>, d.self, t.files,
                     [NoIO EXCEPT !.wrote = t.wrote])
                : t \in {create_apidog_readme(
                           copy_templates(
                             Wrote(IF exists(files, d.val) THEN files
                                   ELSE Put(files, d.val, Dir), {}),
                             force, d.val, dirname(d.val), 1),
                           force, join(d.val, "README.md"))} })
         : d \in {output_dir(s)} })

\* the project directory with the .gitignore given ({}: without one, {text}: with
\* that text), and the package with the templates given, rules the text of its
\* .gitignore.apidog
InitFiles(project_root, gitignore, templates, rules) ==
  [ p \in {project_root, templates_dir}
          \cup {join(project_root, ".gitignore") : g \in gitignore}
          \cup {join(templates_dir, n) : n \in templates} |->
      IF p = project_root \/ p = templates_dir THEN Dir
      ELSE IF p = join(project_root, ".gitignore") THEN Only(gitignore)
      ELSE IF p = join(templates_dir, ".gitignore.apidog") THEN rules
      ELSE <<basename(p)>> ]

\* manage.py apidog init [--force]
InitCommand(force) ==
  /\ \A p \in DOMAIN fs : basename(p) = ".gitignore" => Len(fs[p]) <= MaxGitignore
  /\ \E h \in {ensure_output_dir(Self, fs)} :
       \E r \in {handle_init(h.self, h.files, force)} :
         Finish("init", <<force>>, h, r)

InitInit ==
  /\ APIDOG_SETTINGS = NoConfig /\ environ = NoEnv
  /\ _cached_attrs = {} /\ inst_dict = EmptyMap /\ _user_settings = {}
  /\ ret = Ret("init", <<>>, FALSE, <<>>, {}, {})
  /\ returned = EmptyMap
  /\ \E gitignore \in {{}} \cup {{g} : g \in Gitignores}, templates \in TemplateSets,
        rules \in Rules :
       fs = InitFiles(dirname(output_dir(Self).val), gitignore, templates, rules)
  /\ out = NoCommand
  /\ local_schema = EmptyMap /\ cloud_schema = EmptyMap /\ compared = NotCompared
  /\ NoThreads

NextInit == \E force \in BOOLEAN : InitCommand(force)

SpecInit == InitInit /\ [][NextInit]_vars

-----------------------------------------------------------------------------
(* Threads on the one apidog_settings instance (settings.py): attribute    *)
(* access and reload() taken statement by statement, each statement one    *)
(* step, the threads interleaved at will.  When the callers serialize, a   *)
(* call runs from its first statement to its last under the one mutex.     *)

ThreadConfigs == {FullConfig, BlankConfig}

ThreadKeys == {"PROJECT_ID", "TOKEN"}

Resting == {"idle", "returned", "raised"}

\* mutant: the attribute is left on the instance
delattr_ignored(d, attr) == d

\* delattr(self, attr) on an attribute the instance has
delattr(d, attr) == [x \in DOMAIN d \ {attr} |-> d[x]]

Acquire(t) ==
  /\ serialized => lock = "free"
  /\ lock' = IF serialized THEN t ELSE lock

Release == lock' = IF serialized THEN "free" ELSE lock

Running(t) == serialized => lock = t

thread_frame == <<ret, returned, environ, fs, out, local_schema, cloud_schema, compared,
                  serialized>>

\* apidog_settings.<attr> is evaluated
GetBegin(t, attr) ==
  /\ pc[t] \in Resting
  /\ Acquire(t)
  /\ pc' = [pc EXCEPT ![t] = "lookup"]
  /\ frame' = [frame EXCEPT ![t] = [NoFrame EXCEPT !.attr = attr]]
  /\ UNCHANGED <<APIDOG_SETTINGS, _cached_attrs, inst_dict, _user_settings, stale_keys,
                 thread_frame>>

\* normal attribute lookup: a memoized value is returned, a miss enters __getattr__,
\* where the name is found in self.defaults
GetLookup(t) ==
  /\ pc[t] = "lookup" /\ Running(t)
  /\ IF frame[t].attr \in DOMAIN inst_dict
       THEN /\ frame' = [frame EXCEPT ![t].val = inst_dict[frame[t].attr],
                                        ![t].hit = TRUE]
            /\ pc' = [pc EXCEPT ![t] = "returned"]
            /\ Release
       ELSE /\ pc' = [pc EXCEPT ![t] = "hasattr"]
            /\ UNCHANGED <<frame, lock>>
  /\ UNCHANGED <<APIDOG_SETTINGS, _cached_attrs, inst_dict, _user_settings, stale_keys,
                 thread_frame>>

\* user_settings: if not hasattr(self, "_user_settings")
GetHasattr(t) ==
  /\ pc[t] = "hasattr" /\ Running(t)
  /\ pc' = [pc EXCEPT ![t] = IF _user_settings = {} THEN "snapshot" ELSE "read"]
  /\ UNCHANGED <<APIDOG_SETTINGS, _cached_attrs, inst_dict, _user_settings, stale_keys,
                 lock, frame, thread_frame>>

\* user_settings: self._user_settings = getattr(settings, "APIDOG_SETTINGS", {})
GetSnapshot(t) ==
  /\ pc[t] = "snapshot" /\ Running(t)
  /\ _user_settings' = {APIDOG_SETTINGS}
  /\ pc' = [pc EXCEPT ![t] = "read"]
  /\ UNCHANGED <<APIDOG_SETTINGS, _cached_attrs, inst_dict, stale_keys, lock, frame,
                 thread_frame>>

\* user_settings: return self._user_settings, then val = ...[attr] or the fallback;
\* the attribute gone, the access raises AttributeError
GetRead(t) ==
  /\ pc[t] = "read" /\ Running(t)
  /\ IF _user_settings = {}
       THEN /\ pc' = [pc EXCEPT ![t] = "raised"]
            /\ Release
            /\ UNCHANGED frame
       ELSE LET m == CHOOSE x \in _user_settings : TRUE
                attr == frame[t].attr
                val == IF attr \in DOMAIN m THEN m[attr]
                       ELSE IF attr \in {"PROJECT_ID", "TOKEN", "OUTPUT_DIR"}
                         THEN environ_get(EnvVarOf[attr], DEFAULTS[attr])
                       ELSE DEFAULTS[attr]
            IN /\ frame' = [frame EXCEPT ![t].val = val]
               /\ pc' = [pc EXCEPT ![t] = "add"]
               /\ UNCHANGED lock
  /\ UNCHANGED <<APIDOG_SETTINGS, _cached_attrs, inst_dict, _user_settings, stale_keys,
                 thread_frame>>

\* self._cached_attrs.add(attr)
GetAdd(t) ==
  /\ pc[t] = "add" /\ Running(t)
  /\ _cached_attrs' = _cached_attrs \cup {frame[t].attr}
  /\ pc' = [pc EXCEPT ![t] = "setattr"]
  /\ UNCHANGED <<APIDOG_SETTINGS, inst_dict, _user_settings, stale_keys, lock, frame,
                 thread_frame>>

\* setattr(self, attr, val); return val
GetSetattr(t) ==
  /\ pc[t] = "setattr" /\ Running(t)
  /\ inst_dict' = Put(inst_dict, frame[t].attr, frame[t].val)
  /\ stale_keys' = IF frame[t].old THEN stale_keys \cup {frame[t].attr}
                   ELSE stale_keys \ {frame[t].attr}
  /\ pc' = [pc EXCEPT ![t] = "returned"]
  /\ Release
  /\ UNCHANGED <<APIDOG_SETTINGS, _cached_attrs, _user_settings, frame, thread_frame>>

\* apidog_settings.reload() is called: the for loop takes its iterator
ReloadBegin ==
  /\ pc["r"] \in Resting
  /\ Acquire("r")
  /\ pc' = [pc EXCEPT !["r"] = "iter"]
  /\ frame' = [frame EXCEPT !["r"] = [NoFrame EXCEPT !.todo = _cached_attrs,
                                                    !.size = Cardinality(_cached_attrs)]]
  /\ UNCHANGED <<APIDOG_SETTINGS, _cached_attrs, inst_dict, _user_settings, stale_keys,
                 thread_frame>>

\* for attr in self._cached_attrs: try delattr(self, attr) except AttributeError.
\* The set iterator raises RuntimeError when the set has changed size.
ReloadIter ==
  /\ pc["r"] = "iter" /\ Running("r")
  /\ IF Cardinality(_cached_attrs) # frame["r"].size
       THEN /\ pc' = [pc EXCEPT !["r"] = "raised"]
            /\ Release
            /\ UNCHANGED <<frame, inst_dict, stale_keys>>
       ELSE IF frame["r"].todo = {}
         THEN /\ pc' = [pc EXCEPT !["r"] = "clear"]
              /\ UNCHANGED <<frame, inst_dict, stale_keys, lock>>
         ELSE \E attr \in frame["r"].todo :
                /\ frame' = [frame EXCEPT !["r"].todo = @ \ {attr}]
                /\ inst_dict' = IF attr \in DOMAIN inst_dict THEN delattr(inst_dict, attr)
                                ELSE inst_dict
                /\ stale_keys' = stale_keys \cap DOMAIN inst_dict'
                /\ UNCHANGED <<pc, lock>>
  /\ UNCHANGED <<APIDOG_SETTINGS, _cached_attrs, _user_settings, thread_frame>>

\* self._cached_attrs.clear()
ReloadClear ==
  /\ pc["r"] = "clear" /\ Running("r")
  /\ _cached_attrs' = {}
  /\ pc' = [pc EXCEPT !["r"] = "hasattr"]
  /\ UNCHANGED <<APIDOG_SETTINGS, inst_dict, _user_settings, stale_keys, lock, frame,
                 thread_frame>>

\* reload() returns: what is memoized now, and what a getter holds to memoize,
\* was resolved before this reload
ReloadReturn ==
  /\ pc' = [pc EXCEPT !["r"] = "returned"]
  /\ frame' = [t \in Threads |->
                 IF t \in Getters /\ pc[t] \in {"add", "setattr"}
                   THEN [frame[t] EXCEPT !.old = TRUE] ELSE frame[t]]
  /\ stale_keys' = DOMAIN inst_dict
  /\ Release

\* if hasattr(self, "_user_settings")
ReloadHasattr ==
  /\ pc["r"] = "hasattr" /\ Running("r")
  /\ IF _user_settings = {}
       THEN ReloadReturn
       ELSE /\ pc' = [pc EXCEPT !["r"] = "delattr"]
            /\ UNCHANGED <<frame, stale_keys, lock>>
  /\ UNCHANGED <<APIDOG_SETTINGS, _cached_attrs, inst_dict, _user_settings, thread_frame>>

\* delattr(self, "_user_settings")
ReloadDelattr ==
  /\ pc["r"] = "delattr" /\ Running("r")
  /\ _user_settings' = {}
  /\ ReloadReturn
  /\ UNCHANGED <<APIDOG_SETTINGS, _cached_attrs, inst_dict, thread_frame>>

\* settings.APIDOG_SETTINGS is replaced while the threads run
ReplaceConfig(c) ==
  /\ c # APIDOG_SETTINGS
  /\ APIDOG_SETTINGS' = c
  /\ UNCHANGED <<_cached_attrs, inst_dict, _user_settings, lock, pc, frame, stale_keys,
                 thread_frame>>

InitThreads ==
  /\ APIDOG_SETTINGS \in ThreadConfigs /\ environ = NoEnv
  /\ _cached_attrs = {} /\ inst_dict = EmptyMap /\ _user_settings = {}
  /\ ret = Ret("init", <<>>, FALSE, <<>>, {}, {})
  /\ returned = EmptyMap
  /\ fs = ProjectFiles
  /\ out = NoCommand
  /\ local_schema = EmptyMap /\ cloud_schema = EmptyMap /\ compared = NotCompared
  /\ serialized \in BOOLEAN
  /\ lock = "free"
  /\ pc = [t \in Threads |-> "idle"]
  /\ frame = [t \in Threads |-> NoFrame]
  /\ stale_keys = {}

NextThreads ==
  \/ \E t \in Getters, attr \in ThreadKeys : GetBegin(t, attr)
  \/ \E t \in Getters :
       \/ GetLookup(t)
       \/ GetHasattr(t)
       \/ GetSnapshot(t)
       \/ GetRead(t)
       \/ GetAdd(t)
       \/ GetSetattr(t)
  \/ ReloadBegin
  \/ ReloadIter
  \/ ReloadClear
  \/ ReloadHasattr
  \/ ReloadDelattr
  \/ \E c \in ThreadConfigs : ReplaceConfig(c)

SpecThreads == InitThreads /\ [][NextThreads]_vars

-----------------------------------------------------------------------------
(* What the claims speak of *)

\* The configuration mapping a resolution reads: the snapshot kept since the first
\* access after construction or reset, and the live APIDOG_SETTINGS when none is kept.
ConfigRead ==
  IF _user_settings = {} THEN APIDOG_SETTINGS ELSE CHOOSE m \in _user_settings : TRUE

\* A source of a value: <<v>> when it supplies v, <<>> when it supplies nothing.
OverrideSource(ov) == IF Truthy(ov) THEN <<ov>> ELSE <<>>

ConfigSource(k) == IF k \in DOMAIN ConfigRead THEN <<ConfigRead[k]>> ELSE <<>>

EnvSource(k) ==
  IF k \in {"OUTPUT_DIR", "PROJECT_ID", "TOKEN"} /\ environ[EnvVarOf[k]] # Unset
    THEN <<environ[EnvVarOf[k]]>>
    ELSE <<>>

DefaultSource(k) == <<DEFAULTS[k]>>

\* configuration, then environment, then default: first present wins
ConfigFirst(k) == Head(ConfigSource(k) \o EnvSource(k) \o DefaultSource(k))

\* What get(k) returns when called now: the value it returned before, if it has
\* returned one since the last reset, else a fresh resolution.
GetNow(k) == IF k \in DOMAIN returned THEN returned[k] ELSE ConfigFirst(k)

\* The step is the call get(name) / get_credentials(p, t): ret' names the call, and
\* the action is evaluated only then.
GetStep(name) == ret'.op = "get" /\ ret'.args = <<name>> /\ Get(name)

CredentialsStep(p, t) ==
  ret'.op = "get_credentials" /\ ret'.args = <<p, t>> /\ GetCredentials(p, t)

FirstGet(k) == k \notin DOMAIN returned /\ GetStep(k)

LiveValue(k) ==
  IF k \in DOMAIN APIDOG_SETTINGS THEN APIDOG_SETTINGS[k]
  ELSE IF k \in {"OUTPUT_DIR", "PROJECT_ID", "TOKEN"} /\ environ[EnvVarOf[k]] # Unset
    THEN environ[EnvVarOf[k]]
  ELSE DEFAULTS[k]

C3_EnvironmentNeverRead ==
  [][ \A k \in Keys \ {"OUTPUT_DIR", "PROJECT_ID", "TOKEN"} :
        GetStep(k) =>
          /\ ~ret'.raised
          /\ ret'.val = <<IF k \in DOMAIN ConfigRead THEN ConfigRead[k] ELSE DEFAULTS[k]>>
    ]_vars

\* C3 witness: APIDOG_TIMEOUT is set, TIMEOUT is not in the configuration, and a
\* first get of TIMEOUT has just returned the default.
C3_Witness ==
  /\ ret.op = "get" /\ ret.args = <<"TIMEOUT">> /\ ret.hook = {"TIMEOUT"}
  /\ environ["APIDOG_TIMEOUT"] = "5"
  /\ "TIMEOUT" \notin DOMAIN ConfigRead
  /\ ret.val = <<DEFAULTS["TIMEOUT"]>>

\* C4 as claimed: get(key) fails exactly for the names that are not in DEFAULTS.
C4_FailsIffNotInDefaults ==
  ret.op = "get" => (ret.raised <=> ret.args[1] \notin Keys)

\* The names attribute access finds on the resolver object without the hook.
OwnAttrs ==
  {"defaults", "_cached_attrs", "user_settings", "get_output_dir", "get_credentials",
   "reload"} \cup (IF _user_settings = {} THEN {} ELSE {"_user_settings"})

\* C4 amended: get(name) fails with the unknown-key error exactly for the names that
\* are neither in DEFAULTS nor an attribute the resolver object itself has in that
\* state, and never fails for a recognized key, which yields one value (None when
\* the optional value is absent).
C4_FailsIffUnknownName ==
  [][ \A n \in Names :
        GetStep(n) =>
          /\ ret'.raised <=> (n \notin Keys /\ n \notin OwnAttrs)
          /\ ret'.raised => UNCHANGED <<_cached_attrs, inst_dict, _user_settings>>
          /\ n \in Keys => Len(ret'.val) = 1 ]_vars

\* C4 witness: a get of a name that is not a key has just failed.
C4_Witness ==
  /\ ret.op = "get" /\ ret.args = <<"INVALID_SETTING">> /\ ret.raised

\* C5: once get(key) has returned v, every later get(key) - direct, or made by
\* get_credentials or get_output_dir - returns the same v until reload() is called,
\* whatever happens to the environment and to APIDOG_SETTINGS in between.
C5_CachedUntilReset ==
  [][ ret'.op # "reload" =>
        \A k \in DOMAIN returned : k \in DOMAIN returned' /\ returned'[k] = returned[k]
    ]_vars

\* C5 witness: a get served from the cache has just returned a value that a fresh
\* resolution from the present configuration and environment would not yield.
C5_Witness ==
  /\ ret.op = "get" /\ ret.hook = {} /\ ~ret.raised
  /\ ret.args[1] \in Keys
  /\ ret.val # <<LiveValue(ret.args[1])>>

\* C6: reload() leaves no cached key, no memoized value and no configuration
\* snapshot, whatever calls came before it; and from that state the next get of a
\* recognized key is resolved from APIDOG_SETTINGS and the environment as they are
\* at the moment of the call.
C6_ResetForgetsEverything ==
  [][ /\ ret'.op = "reload" =>
           /\ _cached_attrs' = {}
           /\ inst_dict' = EmptyMap
           /\ _user_settings' = {}
           /\ returned' = EmptyMap
      /\ \A k \in Keys :
           (_cached_attrs = {} /\ inst_dict = EmptyMap /\ _user_settings = {}
              /\ GetStep(k)) =>
             /\ ret'.val = <<LiveValue(k)>>
             /\ _user_settings' = {APIDOG_SETTINGS} ]_vars

\* C6 witness: a reload has just dropped two memoized keys and the snapshot.
C6_Witness ==
  /\ ret.op = "reload"
  /\ "_user_settings" \in ret.dropped
  /\ Cardinality(ret.dropped \cap Keys) >= 2
  /\ _cached_attrs = {} /\ inst_dict = EmptyMap /\ _user_settings = {}

\* C7: the configuration is a snapshot re-read only on reload(): replacing
\* APIDOG_SETTINGS leaves the snapshot as it is, and while a snapshot is kept a first
\* get of a key not yet cached takes the key from the snapshot, not from the mapping
\* that replaced it.
C7_SnapshotUntilReset ==
  [][ /\ (ret'.op = "outside" /\ _user_settings # {}) =>
           _user_settings' = _user_settings
      /\ \A k \in Keys :
           (_user_settings # {} /\ FirstGet(k)) =>
             LET snap == CHOOSE m \in _user_settings : TRUE IN
               /\ _user_settings' = _user_settings
               /\ ret'.val =
                    << IF k \in DOMAIN snap THEN snap[k]
                       ELSE Head(EnvSource(k) \o DefaultSource(k)) >> ]_vars

\* C7 witness: one key was resolved, APIDOG_SETTINGS was replaced, and a first get
\* of another key has just returned what the old mapping gives, which is not what
\* the new one would give.
C7_Witness ==
  /\ ret.op = "get" /\ ret.hook # {} /\ Cardinality(_cached_attrs) = 2
  /\ _user_settings # {} /\ _user_settings # {APIDOG_SETTINGS}
  /\ ret.val # <<LiveValue(ret.args[1])>>

\* C8: in every reachable resolver state reload() twice in a row leaves the state
\* reload() once leaves (same cached-key set, same memoized values, same snapshot
\* presence, hence the same later gets), and neither call fails - also on a fresh or
\* an already reset resolver, which it leaves as it is.
C8_ResetIdempotent ==
  LET once == reload(Self)
      twice == reload(once.self)
  IN /\ ~once.raised /\ ~twice.raised
     /\ twice.self = once.self
     /\ (_cached_attrs = {} /\ inst_dict = EmptyMap /\ _user_settings = {}) =>
          once.self = Self
     /\ ret.op = "reload" => (~ret.raised /\ once.self = Self)

\* C8 witness: a reload of a resolver that held nothing to drop has just returned.
C8_Witness ==
  /\ ret.op = "reload" /\ ret.dropped = {} /\ ~ret.raised
  /\ _cached_attrs = {} /\ _user_settings = {}

\* C9: get_credentials(p, t) returns the pair whose first component is p when p is
\* given and what get(PROJECT_ID) returns otherwise, and whose second is t when t
\* is given and what get(TOKEN) returns otherwise, each decided on its own.
C9_OverrideWinsPerComponent ==
  [][ \A p \in Overrides, t \in Overrides :
        CredentialsStep(p, t) =>
          ret'.val = << IF Truthy(p) THEN p ELSE GetNow("PROJECT_ID"),
                        IF Truthy(t) THEN t ELSE GetNow("TOKEN") >> ]_vars

\* C9 witness: the resolver holds (cfg-project, cfg-token) and
\* get_credentials("X", None) has just returned ("X", cfg-token).
C9_Witness ==
  /\ ret.op = "get_credentials" /\ ret.args = <<"X", None>>
  /\ ConfigRead = FullConfig
  /\ ret.val = <<"X", "cfg-token">>

\* C10: an empty override counts as not given: for an override "" the component is
\* what get of the key returns, so get_credentials("", "") returns the resolver's
\* pair, and no override makes a component empty when the resolver's is not.
C10_EmptyOverrideFallsThrough ==
  [][ \A p \in Overrides, t \in Overrides :
        CredentialsStep(p, t) =>
          /\ p = "" => ret'.val[1] = GetNow("PROJECT_ID")
          /\ t = "" => ret'.val[2] = GetNow("TOKEN")
          /\ Truthy(GetNow("PROJECT_ID")) => Truthy(ret'.val[1])
          /\ Truthy(GetNow("TOKEN")) => Truthy(ret'.val[2]) ]_vars

\* C10 witness: the resolver holds (cfg-project, cfg-token) and
\* get_credentials("", "") has just returned that pair.
C10_Witness ==
  /\ ret.op = "get_credentials" /\ ret.args = <<"", "">>
  /\ ret.val = <<"cfg-project", "cfg-token">>

\* C11: overrides passed to get_credentials are not kept.  A call with both
\* overrides given leaves the resolver exactly as it was; a given override never
\* becomes the instance's value of its key; and a later call with no overrides
\* returns (get(PROJECT_ID), get(TOKEN)) - after a reload, what APIDOG_SETTINGS and
\* the environment give at that moment.
C11_OverridesDoNotPersist ==
  [][ \A p \in Overrides, t \in Overrides :
        CredentialsStep(p, t) =>
          /\ (Truthy(p) /\ Truthy(t)) =>
               UNCHANGED <<_cached_attrs, inst_dict, _user_settings, returned>>
          /\ Truthy(p) =>
               /\ ("PROJECT_ID" \in DOMAIN inst_dict') = ("PROJECT_ID" \in DOMAIN inst_dict)
               /\ "PROJECT_ID" \in DOMAIN inst_dict =>
                    inst_dict'["PROJECT_ID"] = inst_dict["PROJECT_ID"]
          /\ Truthy(t) =>
               /\ ("TOKEN" \in DOMAIN inst_dict') = ("TOKEN" \in DOMAIN inst_dict)
               /\ "TOKEN" \in DOMAIN inst_dict => inst_dict'["TOKEN"] = inst_dict["TOKEN"]
          /\ (~Truthy(p) /\ ~Truthy(t)) =>
               /\ ret'.val = <<GetNow("PROJECT_ID"), GetNow("TOKEN")>>
               /\ (_cached_attrs = {} /\ inst_dict = EmptyMap /\ _user_settings = {}) =>
                    ret'.val = <<LiveValue("PROJECT_ID"), LiveValue("TOKEN")>> ]_vars

\* C11 witness: get_credentials("X", "X") has just returned ("X", "X") while the
\* resolver still holds its own pair (cfg-project, cfg-token) for the two keys.
C11_Witness ==
  /\ ret.op = "get_credentials" /\ ret.args = <<"X", "X">> /\ ret.val = <<"X", "X">>
  /\ {"PROJECT_ID", "TOKEN"} \subseteq DOMAIN inst_dict
  /\ inst_dict["PROJECT_ID"] = "cfg-project" /\ inst_dict["TOKEN"] = "cfg-token"

\* The path get_output_dir derives from the project root b: b/apidog, and
\* parent(b)/apidog when the last segment of b is "app".
DerivedDir(b) ==
  IF b[Len(b)] = "app" THEN SubSeq(b, 1, Len(b) - 1) \o <<"apidog">>
  ELSE b \o <<"apidog">>

\* C12: get_output_dir returns OUTPUT_DIR when it is set and not empty; otherwise
\* <root>/apidog, or <parent of root>/apidog when the root's last segment is "app":
\* /srv/app gives /srv/apidog and /srv/myproj gives /srv/myproj/apidog.
C12_OutputDirOrDerived ==
  [][ \A b \in BaseDirs :
        (ret'.op = "get_output_dir" /\ GetOutputDir(b)) =>
          /\ ret'.val = IF Truthy(GetNow("OUTPUT_DIR")) THEN <<GetNow("OUTPUT_DIR")>>
                        ELSE DerivedDir(b)
          /\ (~Truthy(GetNow("OUTPUT_DIR")) /\ b = <<"/", "srv", "app">>) =>
               ret'.val = <<"/", "srv", "apidog">>
          /\ (~Truthy(GetNow("OUTPUT_DIR")) /\ b = <<"/", "srv", "myproj">>) =>
               ret'.val = <<"/", "srv", "myproj", "apidog">> ]_vars

\* C12 witness: OUTPUT_DIR is not set, the root is /srv/app, and get_output_dir has
\* just returned /srv/apidog.
C12_Witness ==
  /\ ret.op = "get_output_dir" /\ ret.args = <<"/", "srv", "app">>
  /\ ~Truthy(returned["OUTPUT_DIR"])
  /\ ret.val = <<"/", "srv", "apidog">>

AllPaths == {"/a", "/b", "/c"}

PathKeys(schema) ==
  IF "paths" \notin DOMAIN schema THEN {}
  ELSE {p \in AllPaths : \E i \in 1..Len(schema["paths"].items) :
                            schema["paths"].items[i][1] = p}

HasPathSet(schema) == "paths" \in DOMAIN schema => schema["paths"].type = "dict"

Elements(list) == {list[i] : i \in 1..Len(list)}

\* C14: when the two documents have path key sets L and R the comparison returns
\* local_only = L \ R and cloud_only = R \ L, each path once, and common = |L \cap R|;
\* L = {/a, /b} and R = {/b, /c} give {/a}, {/c} and 1.
C14_SetDifferences ==
  (compared.op = "compare" /\ HasPathSet(local_schema) /\ HasPathSet(cloud_schema)) =>
    LET L == PathKeys(local_schema)
        R == PathKeys(cloud_schema)
    IN /\ compared.raised = ""
       /\ \A p \in AllPaths :
            /\ p \in Elements(compared.local_only) <=> (p \in L /\ p \notin R)
            /\ p \in Elements(compared.cloud_only) <=> (p \in R /\ p \notin L)
       /\ Elements(compared.local_only) \cup Elements(compared.cloud_only) \subseteq AllPaths
       /\ Len(compared.local_only) = Cardinality(Elements(compared.local_only))
       /\ Len(compared.cloud_only) = Cardinality(Elements(compared.cloud_only))
       /\ compared.common = Cardinality({p \in AllPaths : p \in L /\ p \in R})
       /\ (L = {"/a", "/b"} /\ R = {"/b", "/c"}) =>
            /\ compared.local_only = <<"/a">>
            /\ compared.cloud_only = <<"/c">>
            /\ compared.common = 1

\* C14 witness: {/a, /b} has just been compared with {/b, /c}.
C14_Witness ==
  /\ compared.op = "compare" /\ local_schema = SchemaAB /\ cloud_schema = SchemaBC
  /\ compared.local_only = <<"/a">> /\ compared.cloud_only = <<"/c">>
  /\ compared.common = 1

\* C15 as claimed: the comparison never fails, whatever the two mappings are; a
\* document without "paths" counts as one with no paths, and two empty documents
\* give no difference and no common path.
C15_CompareNeverFails ==
  compared.op = "compare" =>
    /\ compared.raised = ""
    /\ (local_schema = EmptyMap /\ cloud_schema = EmptyMap) =>
         (compared.local_only = <<>> /\ compared.cloud_only = <<>> /\ compared.common = 0)

\* C16: the report is a function of the two path key sets alone: any two documents
\* with the same key sets - keys in another order, other operation definitions,
\* other top-level entries - give the same sets and the same count, whatever was
\* compared before; and the comparison leaves the two documents and the
\* filesystem as they were.
C16_DependsOnKeySetsOnly ==
  [][ (compared'.op = "compare" /\ compared' # compared /\ compared'.raised = "") =>
        /\ UNCHANGED <<local_schema, cloud_schema, fs>>
        /\ \A l \in Schemas, c \in Schemas :
             ( /\ HasPathSet(l) /\ HasPathSet(c)
               /\ PathKeys(l) = PathKeys(local_schema)
               /\ PathKeys(c) = PathKeys(cloud_schema) ) =>
               /\ compare(l, c).raised = ""
               /\ compare(l, c).local_only = Elements(compared'.local_only)
               /\ compare(l, c).cloud_only = Elements(compared'.cloud_only)
               /\ compare(l, c).common = compared'.common ]_vars

\* C16 witness: {/b, /a} - the keys of SchemaAB in the other order - has just been
\* compared with {/a, /b} under other operations, and nothing differs.
C16_Witness ==
  /\ compared.op = "compare" /\ local_schema = SchemaBA /\ cloud_schema = SchemaABPost
  /\ compared.local_only = <<>> /\ compared.cloud_only = <<>> /\ compared.common = 2

\* C17: filling the cache is a read, a check and a write that other threads can
\* come between.  When every get and reload runs under the one mutex, no state is
\* reachable in which a memoized value predates the last finished reload, and no
\* call fails.  Without the mutex such a state is reachable (the witness).
C17_SerializedNeverStale ==
  serialized =>
    /\ stale_keys = {}
    /\ \A t \in Threads : pc[t] # "raised"
    /\ (lock = "free" /\ pc["r"] = "returned") => \A k \in DOMAIN inst_dict :
          k \in _cached_attrs

\* C17 witness: no mutex; the reload has finished, TOKEN is memoized with the value
\* of the configuration that was replaced, _cached_attrs does not list it, and a
\* later get of TOKEN has just been served that value.
C17_Witness ==
  /\ ~serialized
  /\ pc["r"] = "returned"
  /\ APIDOG_SETTINGS = BlankConfig /\ _user_settings = {}
  /\ "TOKEN" \in stale_keys /\ "TOKEN" \notin _cached_attrs
  /\ inst_dict["TOKEN"] = "cfg-token"
  /\ \E t \in Getters :
       pc[t] = "returned" /\ frame[t].attr = "TOKEN" /\ frame[t].hit
         /\ frame[t].val = "cfg-token"

-----------------------------------------------------------------------------
(* The push, pull and compare subcommands *)

\* the subcommand just run
Ran(cmd) == out.cmd = cmd

\* it resolved both a project id and a token
CredentialsValid == Truthy(out.credentials[1]) /\ Truthy(out.credentials[2])

\* the subcommand asked for an export and the schema endpoint refused it
ExportFailed == out.fetched # <<>> /\ out.fetched # <<200>>

\* push was given a --file that is not there
FileMissing == out.options[3] # <<>> /\ ~exists(fs, out.options[3])

\* the file a pull writes: the --output path, else a timestamped file in the
\* output directory
PullFiles ==
  IF out.options[3] # <<>> THEN {out.options[3]}
  ELSE {join(output_dir(Self).val, openapi_from_apidog[now]) : now \in Stamps}

\* C18 as stated: whenever the resolved project id or the resolved token is absent
\* or empty, push, pull and compare fail with CommandError "APIDOG credentials
\* required" and send no request to the cloud.
C18_CredentialsRequiredAlways ==
  (out.cmd \in {"push", "pull", "compare"} /\ ~CredentialsValid)
    => /\ out.raised = CommandError("APIDOG credentials required")
       /\ out.requests = <<>>

\* C18, amended: without both credentials no request is sent to the cloud, and push,
\* pull and compare fail with CommandError "APIDOG credentials required", except
\* that a compare which first has to export the local schema and whose export is
\* refused fails with that export's CommandError "Failed to fetch schema".
C18_CredentialsRequiredUnlessExportFailed ==
  (out.cmd \in {"push", "pull", "compare"} /\ ~CredentialsValid)
    => /\ out.requests = <<>>
       /\ out.raised = IF Ran("compare") /\ ExportFailed
                         THEN CommandError("Failed to fetch schema")
                         ELSE CommandError("APIDOG credentials required")

\* a compare without credentials that exported the local schema, wrote its two
\* files, and only then failed for the credentials
C18_Witness ==
  /\ Ran("compare") /\ ~CredentialsValid
  /\ out.fetched = <<200>> /\ out.wrote # {}
  /\ out.raised = CommandError("APIDOG credentials required")
  /\ out.requests = <<>>

C20_PushAlwaysPosts ==
  (Ran("push") /\ CredentialsValid)
    => /\ Len(out.requests) = 1
       /\ out.requests[1].method = "POST"
       /\ LET answer == out.requests[1].answer IN
            IF answer.kind = "RequestException"
              THEN out.raised.type = "CommandError"
              ELSE /\ out.raised = NoError
                   /\ out.result = IF answer.status = 200 THEN <<"True">> ELSE <<"False">>

\* C20, amended: a push with valid credentials whose schema file is there (the
\* --file given, else the file of an export that succeeded) sends exactly one POST,
\* returns True if and only if the status of the answer is 200, returns False
\* without raising on any other status, and raises CommandError on a transport
\* error; a push whose export is refused raises CommandError "Failed to fetch
\* schema", one whose --file is not there raises FileNotFoundError, and neither
\* sends a request.
C20_PushPostsOnceWithSchemaFile ==
  (Ran("push") /\ CredentialsValid)
    => IF ExportFailed
         THEN out.requests = <<>> /\ out.raised = CommandError("Failed to fetch schema")
       ELSE IF FileMissing
         THEN out.requests = <<>> /\ out.raised.type = "FileNotFoundError"
       ELSE
         /\ Len(out.requests) = 1
         /\ out.requests[1].method = "POST"
         /\ LET answer == out.requests[1].answer IN
              IF answer.kind = "RequestException"
                THEN out.raised = CommandError("Request failed")
                ELSE /\ out.raised = NoError
                     /\ out.result =
                          IF answer.status = 200 THEN <<"True">> ELSE <<"False">>

\* a push of an exported schema that the cloud answered with 401: one POST, False
\* returned, nothing raised
C20_Witness ==
  /\ Ran("push") /\ CredentialsValid
  /\ out.fetched = <<200>>
  /\ Len(out.requests) = 1 /\ out.requests[1].answer.status = 401
  /\ out.result = <<"False">> /\ out.raised = NoError

\* the latest export in the output directory
LatestFile == join(output_dir(Self).val, "openapi_schema_latest.json")

\* the files an export into the output directory writes
ExportFiles ==
  {LatestFile} \cup {join(output_dir(Self).val, openapi_schema[now]) : now \in Stamps}

\* C25: compare obtains the local schema before it goes to the cloud.  With a
\* --local-file, or with no --local-file and an openapi_schema_latest.json already
\* in the output directory, it exports nothing and leaves the latest file as it
\* was; only when that file is not there does it export, which on success writes
\* the timestamped file and the latest file.  The pull and its credentials check
\* come after: a refused export ends compare with the export's error and no
\* request whatever the credentials, and a compare that fails for its credentials
\* has already written what it exported.
C25_LocalSchemaBeforeCloud ==
  [][ out'.cmd = "compare" =>
        /\ IF out'.options[3] # <<>> \/ exists(fs, LatestFile)
             THEN /\ out'.fetched = <<>>
                  /\ out'.wrote \cap ExportFiles = {}
                  /\ exists(fs, LatestFile) => fs'[LatestFile] = fs[LatestFile]
             ELSE /\ Len(out'.fetched) = 1
                  /\ out'.fetched = <<200>> =>
                       /\ LatestFile \in out'.wrote
                       /\ \E now \in Stamps :
                            join(output_dir(Self).val, openapi_schema[now]) \in out'.wrote
                       /\ \A f \in out'.wrote : exists(fs', f)
        /\ ExportFailed' =>
             /\ out'.requests = <<>>
             /\ out'.raised = CommandError("Failed to fetch schema")
        /\ out'.raised = CommandError("APIDOG credentials required") =>
             /\ ~CredentialsValid'
             /\ out'.requests = <<>>
             /\ out'.fetched # <<>> => out'.wrote # {}
    ]_vars

\* a compare with no --local-file and no credentials that found no latest export:
\* it exported, and the latest file is there although compare failed
C25_Witness ==
  /\ Ran("compare") /\ out.options[3] = <<>>
  /\ out.raised = CommandError("APIDOG credentials required")
  /\ LatestFile \in out.wrote
  /\ exists(fs, LatestFile) /\ fs[LatestFile] = "SCHEMA@20240101_000000"

\* C26: push checks the credentials, then exports afresh only when no --file is
\* given, then posts once.  Without credentials nothing is exported, written or
\* sent; when the export is refused no request is sent; and the body of the
\* request is the content of the file just exported, or of the --file given, in
\* which case nothing is exported.
C26_PushOrder ==
  Ran("push") =>
    /\ ~CredentialsValid =>
         out.fetched = <<>> /\ out.wrote = {} /\ out.requests = <<>>
    /\ out.options[3] # <<>> => out.fetched = <<>> /\ out.wrote = {}
    /\ (CredentialsValid /\ out.options[3] = <<>>) => Len(out.fetched) = 1
    /\ ExportFailed => out.requests = <<>> /\ out.wrote = {}
    /\ out.requests # <<>> =>
         /\ Len(out.requests) = 1
         /\ out.requests[1].endpoint = "import-openapi"
         /\ IF out.options[3] # <<>>
              THEN out.requests[1].data = fs[out.options[3]]
              ELSE /\ out.fetched = <<200>>
                   /\ out.wrote = ExportFiles
                   /\ \A f \in out.wrote : out.requests[1].data = fs[f]

\* a push with no --file: the export ran, and the request carries what it wrote
C26_Witness ==
  /\ Ran("push") /\ out.options[3] = <<>>
  /\ out.fetched = <<200>> /\ out.wrote # {}
  /\ Len(out.requests) = 1
  /\ out.requests[1].data = fs[LatestFile]

\* the user settings hold an empty or None entry for key while its environment
\* variable is set to something
Shadowed(key) ==
  /\ key \in DOMAIN APIDOG_SETTINGS /\ ~Truthy(APIDOG_SETTINGS[key])
  /\ Truthy(environ[EnvVarOf[key]]) /\ environ[EnvVarOf[key]] # Unset

\* C28: an entry of the user settings that is present but empty or None shadows the
\* environment.  For PROJECT_ID and for TOKEN alike: when the entry is empty, the
\* environment variable is set, and push or pull is run without the override for
\* it, the value the resolver got and memoized is the empty entry, the credential
\* resolved is that empty value, and the command fails with "APIDOG credentials
\* required" without sending anything.
C28_EmptyEntryShadowsEnvironment ==
  \A i \in {1, 2} :
    LET key == <<"PROJECT_ID", "TOKEN">>[i] IN
      (out.cmd \in {"push", "pull"} /\ Shadowed(key) /\ ~Truthy(out.options[i]))
        => /\ key \in DOMAIN inst_dict /\ inst_dict[key] = APIDOG_SETTINGS[key]
           /\ out.credentials[i] = APIDOG_SETTINGS[key]
           /\ out.raised = CommandError("APIDOG credentials required")
           /\ out.requests = <<>>

\* a pull with no overrides under settings whose PROJECT_ID is None and whose TOKEN
\* is "", with both environment variables set
C28_Witness ==
  /\ Ran("pull") /\ out.options[1] = None /\ out.options[2] = None
  /\ Shadowed("PROJECT_ID") /\ Shadowed("TOKEN")
  /\ inst_dict["PROJECT_ID"] = None /\ inst_dict["TOKEN"] = ""
  /\ out.raised = CommandError("APIDOG credentials required")

\* C29: a failed lookup changes nothing.  A get of a name that is neither a key of
\* DEFAULTS nor an attribute of the resolver object raises, and a get that raises
\* leaves the cached-key set, every memoized value and the configuration snapshot -
\* kept or not kept - exactly as they were: the snapshot is not taken by it.
C29_FailedLookupChangesNothing ==
  [][ ret'.op = "get" =>
        /\ (ret'.args[1] \notin Keys \cup OwnAttrs) => ret'.raised
        /\ ret'.raised =>
             /\ ret'.args[1] \notin Keys
             /\ ret'.hook = {}
             /\ _cached_attrs' = _cached_attrs
             /\ inst_dict' = inst_dict
             /\ _user_settings' = _user_settings
             /\ returned' = returned
    ]_vars

\* a get of an unknown name has just failed on a resolver that keeps no snapshot of
\* user settings that are not empty, and it still keeps none
C29_Witness ==
  /\ ret.op = "get" /\ ret.args = <<"INVALID_SETTING">> /\ ret.raised
  /\ APIDOG_SETTINGS # EmptyMap
  /\ _user_settings = {} /\ _cached_attrs = {}

\* C30: cache bookkeeping.  After any sequence of get, get_credentials,
\* get_output_dir and reload calls the cached-key set holds only keys of DEFAULTS
\* and is exactly the set of names that hold a memoized value, which is the set of
\* keys resolved since the last reload; so a reload, which drops the values of the
\* cached keys, leaves no memoized value behind.
C30_CacheBookkeeping ==
  /\ _cached_attrs \subseteq Keys
  /\ _cached_attrs = DOMAIN inst_dict
  /\ _cached_attrs = DOMAIN returned
  /\ ret.op = "reload" => DOMAIN inst_dict = {} /\ _cached_attrs = {}

\* get_output_dir has just run after a get or get_credentials resolved TOKEN: two
\* keys are cached and exactly those two hold a value
C30_Witness ==
  /\ ret.op = "get_output_dir"
  /\ _cached_attrs = {"OUTPUT_DIR", "TOKEN"}
  /\ DOMAIN inst_dict = {"OUTPUT_DIR", "TOKEN"}

-----------------------------------------------------------------------------
(* The compare report *)

\* the keys of a document's "paths" mapping
ReportKeys(schema) ==
  {schema["paths"].items[i][1] : i \in 1..Len(schema["paths"].items)}

\* where the report has a line of a kind
At(kind) == {i \in 1..Len(compared.lines) : compared.lines[i].kind = kind}

\* the paths listed under the heading of a side, and the line that follows them
Section(kind) ==
  LET lines == compared.lines
      i == CHOOSE j \in At(kind) : TRUE
      k == CHOOSE n \in 0..(Len(lines) - i) :
             /\ \A j \in 1..n : lines[i + j].kind = "path"
             /\ i + n + 1 <= Len(lines) => lines[i + n + 1].kind # "path"
  IN [paths |-> [j \in 1..k |-> lines[i + j].path], next |-> lines[i + k + 1]]

\* what the report must show for a side whose set of paths is S
SideReported(kind, S) ==
  /\ Cardinality(At(kind)) = IF S = {} THEN 0 ELSE 1
  /\ S # {} =>
       LET listed == Section(kind).paths
           next == Section(kind).next
       IN /\ Len(listed) <= 20
          /\ Len(listed) = IF Cardinality(S) > 20 THEN 20 ELSE Cardinality(S)
          /\ Elements(listed) \subseteq S
          /\ \A i \in 1..Len(listed), j \in 1..Len(listed) :
               i < j => Less(listed[i], listed[j])
          /\ \A p \in S \ Elements(listed), q \in Elements(listed) : Less(q, p)
          /\ next.kind = "more" <=> Cardinality(S) > 20
          /\ next.kind = "more" => next.n = Cardinality(S) - 20

\* C27: the report is bounded and agrees with the computed sets.  For each side it
\* lists the paths of that side's difference in ascending order of Python strings,
\* the first 20 of them at most, followed by "... and N more" with N = size - 20
\* exactly when the difference has more than 20 paths; and it prints "Schemas are
\* in sync!" if and only if both differences are empty, that is if and only if the
\* two sets of path keys are equal.
C27_ReportBoundedAndConsistent ==
  compared.op = "report" =>
    LET L == ReportKeys(local_schema)
        R == ReportKeys(cloud_schema)
    IN /\ SideReported("only_in_local", L \ R)
       /\ SideReported("only_in_cloud", R \ L)
       /\ Cardinality(At("more")) =
            Cardinality({S \in {L \ R, R \ L} : Cardinality(S) > 20})
       /\ At("in_sync") # {} <=> (L \ R = {} /\ R \ L = {})
       /\ At("in_sync") # {} <=> L = R

\* a report of 22 paths that are only local, 20 of them listed and "... and 2 more",
\* and of one path that is only in the cloud
C27_Witness ==
  /\ compared.op = "report"
  /\ Cardinality(ReportKeys(local_schema) \ ReportKeys(cloud_schema)) = 22
  /\ At("only_in_local") # {} /\ At("only_in_cloud") # {}
  /\ Len(Section("only_in_local").paths) = 20
  /\ Section("only_in_local").next = Line("more", "", 2)
  /\ Section("only_in_cloud").paths = <<"/b">>

-----------------------------------------------------------------------------
(* The export subcommand *)

\* the directory the export just run writes into: --output, else the output
\* directory of the settings
ExportedInto ==
  IF out'.options[2] # <<>> THEN out'.options[2] ELSE output_dir(Self).val

\* the file the export just run names: --filename, else the timestamped file of
\* its format
NamedFiles ==
  IF out'.options[3] # "" THEN {join(ExportedInto, out'.options[3])}
  ELSE IF out'.options[1] = "json"
    THEN {join(ExportedInto, openapi_schema[now]) : now \in Clock}
  ELSE {join(ExportedInto, openapi_schema_yaml[now]) : now \in Clock}

\* a successful export has just been run
Exported == out'.cmd = "export" /\ out'.raised = NoError

\* C21: every successful export in a format leaves two files with the same
\* content in the directory it exports into: the named file (--filename, else
\* openapi_schema_<timestamp>.<fmt>), whose path it returns, and
\* openapi_schema_latest.<fmt>; it touches no other file; and a latest file is
\* created or changed by nothing but a successful export of its format into its
\* directory.  So after any sequence of successful exports a latest file holds
\* what the most recent export of its format wrote.
C21_LatestIsMostRecentExport ==
  [][ /\ Exported =>
           LET latest == join(ExportedInto, openapi_schema_latest[out'.options[1]]) IN
             /\ out'.result \in NamedFiles
             /\ out'.wrote = {out'.result, latest}
             /\ exists(fs', out'.result) /\ exists(fs', latest)
             /\ fs'[latest] = fs'[out'.result]
             /\ fs'[latest] \in {dump[out'.options[1]][now] : now \in Clock}
             /\ \A f \in DOMAIN fs : exists(fs', f)
             /\ \A f \in DOMAIN fs \ out'.wrote : fs'[f] = fs[f]
             /\ DOMAIN fs' \ DOMAIN fs \subseteq out'.wrote \cup out'.made
      /\ \A f \in DOMAIN fs' :
           ( /\ \E fmt \in Formats : basename(f) = openapi_schema_latest[fmt]
             /\ exists(fs, f) => fs'[f] # fs[f] )
             => /\ Exported
                /\ f = join(ExportedInto, openapi_schema_latest[out'.options[1]])
    ]_vars

\* a second json export, a second later: both latest files are there, the json one
\* holds what the later export wrote and the earlier timestamped file still holds
\* what the earlier one wrote
C21_Witness ==
  /\ Ran("export") /\ out.raised = NoError /\ out.options = <<"json", <<>>, "">>
  /\ out.result = join(output_dir(Self).val, openapi_schema["20240101_000001"])
  /\ exists(fs, join(output_dir(Self).val, openapi_schema["20240101_000000"]))
  /\ exists(fs, join(output_dir(Self).val, "openapi_schema_latest.yaml"))
  /\ fs[join(output_dir(Self).val, "openapi_schema_latest.json")]
       = dump["json"]["20240101_000001"]
  /\ fs[join(output_dir(Self).val, openapi_schema["20240101_000000"])]
       = dump["json"]["20240101_000000"]

\* C22 as stated: whenever export is run, its schema is fetched, and the directory
\* it writes into is not there, the directory is there afterwards and the export
\* succeeds.
C22_ExportCreatesDirectory ==
  [][ (out'.cmd = "export" /\ out'.fetched = <<200>> /\ ~exists(fs, ExportedInto))
        => exists(fs', ExportedInto) /\ out'.raised = NoError
    ]_vars

-----------------------------------------------------------------------------
(* The validate subcommand *)

\* the file the validation just run looks at: --file, else the latest schema of
\* the output directory
ValidatedFile ==
  IF out'.options[1] # <<>> THEN out'.options[1] ELSE LatestFile

\* that file is there and holds a JSON document
HoldsDocument ==
  exists(fs, ValidatedFile) /\ json_load(fs[ValidatedFile]).raised = NoError

\* the required fields the document of that file lacks
AbsentFields ==
  {f \in {"openapi", "info", "paths"} : f \notin json_load(fs[ValidatedFile]).doc.fields}

\* C23: validate returns True exactly when the schema file (--file, else
\* openapi_schema_latest.json in the output directory) exists and its document
\* has all of "openapi", "info" and "paths"; a missing file raises CommandError
\* "Schema file not found"; a document lacking a required field raises
\* CommandError "Missing required field" for the first one absent in the order
\* openapi, info, paths; and no file that was there is changed or removed.
C23_ValidateOutcomes ==
  [][ out'.cmd = "validate" =>
        /\ out'.result = <<"True">> <=> (HoldsDocument /\ AbsentFields = {})
        /\ ~exists(fs, ValidatedFile)
             => out'.raised = CommandError("Schema file not found")
        /\ (HoldsDocument /\ AbsentFields # {})
             => out'.raised =
                  CommandError("Missing required field: " \o
                     (IF "openapi" \in AbsentFields THEN "openapi"
                      ELSE IF "info" \in AbsentFields THEN "info" ELSE "paths"))
        /\ \A f \in DOMAIN fs : exists(fs', f) /\ fs'[f] = fs[f]
    ]_vars

-----------------------------------------------------------------------------
(* The init subcommand *)

\* the .gitignore of the project
Gitignore == join(dirname(output_dir(Self).val), ".gitignore")

\* the rules of the package, when it has them
RulesTemplate == join(templates_dir, ".gitignore.apidog")

\* an init has just been run on a project that had a .gitignore
InitOverGitignore == out'.cmd = "init" /\ exists(fs, Gitignore)

\* C24: init never loses the content of an existing .gitignore.  Whatever
\* --force says: when the file has no line with the marker "# APIDOG generated
\* files", it becomes its old content, a newline and the rules of the package
\* (its old content alone when the package has no rules); when the marker is in
\* it, init leaves it as it was, so that an init run on the file an earlier init
\* has put the marker into appends nothing again.
C24_GitignoreKept ==
  [][ InitOverGitignore =>
        /\ exists(fs', Gitignore)
        /\ Len(fs'[Gitignore]) >= Len(fs[Gitignore])
        /\ SubSeq(fs'[Gitignore], 1, Len(fs[Gitignore])) = fs[Gitignore]
        /\ (~marker_in(fs[Gitignore]) /\ exists(fs, RulesTemplate))
             => fs'[Gitignore] = fs[Gitignore] \o <<"\n">> \o fs[RulesTemplate]
        /\ (marker_in(fs[Gitignore]) \/ ~exists(fs, RulesTemplate))
             => fs'[Gitignore] = fs[Gitignore] /\ Gitignore \notin out'.wrote
    ]_vars

\* an init has appended the rules, marker included, to the rules the project
\* had, and the init run after it, with --force, has left the file alone
C24_Witness ==
  /\ out.cmd = "init" /\ out.options = <<TRUE>>
  /\ Gitignore \notin out.wrote
  /\ exists(fs, Gitignore) /\ exists(fs, RulesTemplate)
  /\ fs[Gitignore] = <<"*.pyc", "\n", ".env", "\n">> \o fs[RulesTemplate]

====
